---- MODULE Spec2Model ----
(***************************************************************************)
(* bro-sms: record normalization (processMessagesData), the search worker  *)
(* (search.worker.ts), the useSearchWorker hook and the search effects of  *)
(* ContactList.                                                            *)
(*                                                                         *)
(* Strings are sequences of one-character strings, so that the regular     *)
(* expressions, trim, toLowerCase and includes of the source are computed  *)
(* character by character.  A missing (undefined) string is Undefined.     *)
(***************************************************************************)
EXTENDS Integers, Sequences, FiniteSets, TLC

(***************************************************************************)
(* Characters and JavaScript string primitives                             *)
(***************************************************************************)
Undefined == <<"undefined">>
Null == <<"null">>

Truthy(s) == s # Undefined /\ s # Null /\ s # <<>>

Digit == {"0", "1", "2", "3", "4", "5", "6", "7", "8", "9"}
LineTerminator == {"\n", "\r"}
WhiteSpace == {" ", "\t"} \cup LineTerminator

UpperCase == <<"A", "B", "C", "D", "E", "F", "G", "H", "I", "J", "K", "L", "M",
               "N", "O", "P", "Q", "R", "S", "T", "U", "V", "W", "X", "Y", "Z">>
LowerCase == <<"a", "b", "c", "d", "e", "f", "g", "h", "i", "j", "k", "l", "m",
               "n", "o", "p", "q", "r", "s", "t", "u", "v", "w", "x", "y", "z">>

LowerChar(c) ==
  IF \E i \in 1..Len(UpperCase) : UpperCase[i] = c
    THEN LowerCase[CHOOSE i \in 1..Len(UpperCase) : UpperCase[i] = c]
    ELSE c

\* UTF-16 units that are no ASCII, by their code point
CapitalDottedI == "U+0130"
CombiningDot == "U+0307"
Ellipsis == "U+2026"

\* the lowercase of one unit: U+0130 becomes the two units U+0069 U+0307
LowerUnits(c) == IF c = CapitalDottedI THEN <<"i", CombiningDot>> ELSE <<LowerChar(c)>>

\* String.prototype.toLowerCase
RECURSIVE toLowerCase(_)
toLowerCase(s) == IF s = <<>> THEN <<>> ELSE LowerUnits(Head(s)) \o toLowerCase(Tail(s))

\* String.prototype.substring(from) with a 0-based index, as a 1-based suffix
Drop(s, n) == IF n >= Len(s) THEN <<>> ELSE SubSeq(s, n + 1, Len(s))
Take(s, n) == IF n >= Len(s) THEN s ELSE SubSeq(s, 1, n)

\* String.prototype.startsWith
startsWith(s, p) == Len(s) >= Len(p) /\ SubSeq(s, 1, Len(p)) = p

\* p occurs in s at 1-based position i
OccursAt(s, p, i) == i >= 1 /\ i + Len(p) - 1 <= Len(s) /\ SubSeq(s, i, i + Len(p) - 1) = p

\* String.prototype.includes
includes(s, p) == \E i \in 1..(Len(s) + 1) : OccursAt(s, p, i)

\* String.prototype.indexOf, 0-based, -1 when absent
indexOf(s, p) ==
  IF includes(s, p)
    THEN (CHOOSE i \in 1..(Len(s) + 1) :
            OccursAt(s, p, i) /\ \A j \in 1..(i - 1) : ~OccursAt(s, p, j)) - 1
    ELSE 0 - 1

\* length of the longest prefix of s made of characters of the set C
RECURSIVE RunLen(_, _)
RunLen(s, C) == IF s # <<>> /\ s[1] \in C THEN 1 + RunLen(Tail(s), C) ELSE 0

Reverse(s) == [i \in 1..Len(s) |-> s[Len(s) + 1 - i]]

\* String.prototype.trim
trim(s) ==
  LET a == Drop(s, RunLen(s, WhiteSpace))
  IN  Take(a, Len(a) - RunLen(Reverse(a), WhiteSpace))

\* s.replace(/\D/g, '')
StripNonDigits(s) == SelectSeq(s, LAMBDA c : c \in Digit)

\* parseInt of a string of decimal digits (NaN, here -1, when it has no leading digit)
RECURSIVE DigitsValue(_, _)
DigitsValue(s, acc) ==
  IF s = <<>> THEN acc
  ELSE DigitsValue(Tail(s), 10 * acc + (CHOOSE d \in 0..9 : ToString(d) = s[1]))

NaN == 0 - 1

parseInt(s) ==
  LET t == trim(s)
      n == RunLen(t, Digit)
  IN  IF n = 0 THEN NaN ELSE DigitsValue(Take(t, n), 0)

\* the decimal spelling of a natural number below 100 (record IDs of the export)
DecimalString(n) ==
  IF n < 10 THEN <<ToString(n)>> ELSE <<ToString(n \div 10), ToString(n % 10)>>

(***************************************************************************)
(* phoneUtils.normalizePhoneNumber                                          *)
(***************************************************************************)
CountryCode == <<"9", "6", "0">>

\* a normalization that drops a leading zero and adds no country code
NormalizeDropsZero(phone) ==
  IF ~Truthy(phone) THEN <<>>
  ELSE LET cleaned == StripNonDigits(phone)
       IN  IF startsWith(cleaned, CountryCode) THEN cleaned
           ELSE IF Len(cleaned) = 7 THEN CountryCode \o cleaned
           ELSE IF startsWith(cleaned, <<"0">>) THEN Drop(cleaned, 1)
           ELSE cleaned

\* a normalization that adds the country code to no number but one with a
\* leading zero
NormalizeKeepsLocal(phone) ==
  IF ~Truthy(phone) THEN <<>>
  ELSE LET cleaned == StripNonDigits(phone)
       IN  IF startsWith(cleaned, CountryCode) THEN cleaned
           ELSE IF startsWith(cleaned, <<"0">>) THEN CountryCode \o Drop(cleaned, 1)
           ELSE cleaned

normalizePhoneNumber(phone) ==
  IF ~Truthy(phone) THEN <<>>
  ELSE LET cleaned == StripNonDigits(phone)
       IN  IF startsWith(cleaned, CountryCode) THEN cleaned
           ELSE IF Len(cleaned) = 7 THEN CountryCode \o cleaned
           ELSE IF startsWith(cleaned, <<"0">>) THEN CountryCode \o Drop(cleaned, 1)
           ELSE IF Len(cleaned) >= 10 THEN cleaned
           ELSE IF Len(cleaned) = 7 THEN CountryCode \o cleaned
           ELSE cleaned

(***************************************************************************)
(* messageUtils.mapSMSStatusToMessageStatus                                 *)
(***************************************************************************)
StrRead == <<"R", "e", "a", "d">>
StrUnread == <<"U", "n", "r", "e", "a", "d">>
StrSent == <<"S", "e", "n", "t">>
StrFailed == <<"F", "a", "i", "l", "e", "d">>

mapSMSStatusToMessageStatus(smsStatus, isFromMe) ==
  LET normalizedStatus == IF smsStatus = Undefined THEN Undefined ELSE toLowerCase(smsStatus)
  IN  IF ~isFromMe
        THEN IF normalizedStatus = toLowerCase(StrRead) THEN "read" ELSE "delivered"
        ELSE IF normalizedStatus = toLowerCase(StrSent) THEN "delivered"
             ELSE IF normalizedStatus = toLowerCase(StrRead) THEN "read"
             ELSE IF normalizedStatus \in {<<"u", "n", "s", "e", "n", "t">>,
                                           toLowerCase(StrFailed),
                                           <<"e", "r", "r", "o", "r">>} THEN "failed"
             ELSE "sent"

(***************************************************************************)
(* messageUtils.isDataRecord: the record shape is found by the presence of  *)
(* the fields, not by a tag                                                 *)
(***************************************************************************)
isDataRecord(record) == {"ID", "Type", "Description"} \subseteq DOMAIN record

(***************************************************************************)
(* Timestamps.  A timestamp string is kept as its "/"-separated date parts  *)
(* (numbers) and its time of day in seconds; present = FALSE is a missing   *)
(* field, hasTime = FALSE a string with no time part.  A Date is its number *)
(* of minutes (time is the minute of the day), NaN for an Invalid Date.     *)
(***************************************************************************)
\* new Date(...) of a year, month, day and time of day: Invalid Date when the
\* month or the day is out of range
DateOf(year, month, day, time) ==
  IF month \in 1..12 /\ day \in 1..31
    THEN (((year * 12 + (month - 1)) * 31) + (day - 1)) * 1440 + time
    ELSE NaN

\* messageUtils.parseNewTimestamp, with the current time `now`: a missing
\* string throws in replace, fewer than two date parts throw in
\* month.padStart, and both are caught; anything else goes to new Date
parseNewTimestamp(ts, now) ==
  IF ~ts.present THEN now
  ELSE IF Len(ts.date) < 2 THEN now
  ELSE IF Len(ts.date) < 3 \/ ~ts.hasTime THEN NaN
  ELSE DateOf(ts.date[3], ts.date[2], ts.date[1], ts.time)

\* the legacy timestamp of processMessagesData: only a missing time or date
\* field throws; missing parts are spelled "undefined" and give Invalid Date
parseLegacyTimestamp(ts, now) ==
  IF ~ts.present \/ ~ts.hasTime THEN now
  ELSE IF Len(ts.date) < 3 THEN NaN
  ELSE DateOf(ts.date[3], ts.date[2], ts.date[1], ts.time)

IsValidDate(t) == t # NaN

\* a > b on Dates: false whenever one of them is an Invalid Date
DateGreater(a, b) == IsValidDate(a) /\ IsValidDate(b) /\ a > b

(***************************************************************************)
(* messageUtils.extractPhoneFromParty                                       *)
(***************************************************************************)
StrFrom == <<"F", "r", "o", "m", ":">>
StrTo == <<"T", "o", ":">>
StrUnknown == <<"U", "n", "k", "n", "o", "w", "n">>

NoParty == [found |-> FALSE, phone |-> <<>>, name |-> <<>>]
PartyOf(p, n) == [found |-> TRUE, phone |-> p, name |-> n]

\* the text of a line: s up to its first line terminator
Line(s) == Take(s, RunLen(s, {s[i] : i \in 1..Len(s)} \ LineTerminator))

\* /(?:From:|To:)\s*(.+)/ tried at position i: the capture, or Undefined.
\* \s* is greedy and gives characters back until (.+) finds a character
\* that is no line terminator.
PartyCaptureAt(party, i) ==
  LET pre == IF OccursAt(party, StrFrom, i) THEN StrFrom
             ELSE IF OccursAt(party, StrTo, i) THEN StrTo ELSE <<>>
      rest == Drop(party, i - 1 + Len(pre))
      w == RunLen(rest, WhiteSpace)
      ok == {k \in 0..w : k < Len(rest) /\ rest[k + 1] \notin LineTerminator}
  IN  IF pre = <<>> THEN Undefined
      ELSE IF ok = {} THEN Undefined
      ELSE Line(Drop(rest, CHOOSE k \in ok : \A j \in ok : j <= k))

\* the capture of the leftmost match, at position i or after it
RECURSIVE PartyCaptureFrom(_, _)
PartyCaptureFrom(party, i) ==
  IF i > Len(party) THEN Undefined
  ELSE LET capture == PartyCaptureAt(party, i)
       IN  IF capture # Undefined THEN capture ELSE PartyCaptureFrom(party, i + 1)

PartyCapture(party) == PartyCaptureFrom(party, 1)

\* the length of a leading \+?\d+ of s, 0 when there is none
PhonePrefixLen(s) ==
  LET plus == IF s # <<>> /\ s[1] = "+" THEN 1 ELSE 0
      d == RunLen(Drop(s, plus), Digit)
  IN  IF d = 0 THEN 0 ELSE plus + d

\* /(\+?\d{7,15})/ tried at position i: the length of the match, 0 for none
PhoneRunAt(s, i) ==
  LET t == Drop(s, i - 1)
      plus == IF t # <<>> /\ t[1] = "+" THEN 1 ELSE 0
      d == RunLen(Drop(t, plus), Digit)
      d0 == RunLen(t, Digit)
  IN  IF d >= 7 THEN plus + (IF d > 15 THEN 15 ELSE d)
      ELSE IF d0 >= 7 THEN (IF d0 > 15 THEN 15 ELSE d0)
      ELSE 0

\* the three patterns tried on the trimmed capture
PartyOfContent(partyContent) ==
    LET n == PhonePrefixLen(partyContent)
        after == Drop(partyContent, n)
        ws == RunLen(after, WhiteSpace)
        name2 == Drop(after, ws)
        hits == {i \in 1..Len(partyContent) : PhoneRunAt(partyContent, i) > 0}
    IN  IF n > 0 /\ ws > 0 /\ name2 # <<>>
           /\ \A i \in 1..Len(name2) : name2[i] \notin LineTerminator
          THEN PartyOf(Take(partyContent, n), trim(name2))
        ELSE IF n > 0 /\ n = Len(partyContent)
          THEN PartyOf(partyContent, StrUnknown)
        ELSE IF hits # {}
          THEN LET i == CHOOSE i \in hits : \A j \in hits : i <= j
                   len == PhoneRunAt(partyContent, i)
                   phone == SubSeq(partyContent, i, i + len - 1)
                   name == trim(Take(partyContent, i - 1) \o Drop(partyContent, i - 1 + len))
               IN  PartyOf(phone, IF name = <<>> THEN StrUnknown ELSE name)
        ELSE NoParty

extractPhoneFromParty(party) ==
  IF ~Truthy(party) THEN NoParty
  ELSE LET capture == PartyCapture(party)
       IN  IF capture = Undefined THEN NoParty ELSE PartyOfContent(trim(capture))

\* /^From:\s*$/i and /^To:\s*$/i on the trimmed Party
hasEmptyParty(partyRaw, prefix) == toLowerCase(partyRaw) = toLowerCase(prefix)

(***************************************************************************)
(* The input records.  Both shapes of UnifiedRecord (types/index.ts), with  *)
(* the fields processMessagesData reads.                                    *)
(***************************************************************************)
TsOn(day) == [present |-> TRUE, date |-> <<day, 6, 2014>>, hasTime |-> TRUE, time |-> 615]
BadMonthTs == [present |-> TRUE, date |-> <<1, 13, 2014>>, hasTime |-> TRUE, time |-> 615]
NoShapeTs == [present |-> TRUE, date |-> <<0>>, hasTime |-> FALSE, time |-> 0]
MissingTs == [present |-> FALSE, date |-> <<>>, hasTime |-> FALSE, time |-> 0]

LocalA == <<"7", "7", "8", "1", "4", "0", "5">>
LocalB == <<"7", "7", "9", "1", "0", "7", "3">>
Amy == <<"A", "m", "y">>
Bob == <<"B", "o", "b">>
Sp == <<" ">>

TypeSMS == "SMS Messages"
TypeIM == "Instant Messages"
TypeCall == "Call Log"
TypeCalendar == "Calendar"
TypeMMS == "MMS Messages"

DataRecord(type, direction, party, timestamp, description) ==
  [ID |-> <<>>, Type |-> type, Direction |-> direction, Timestamp |-> timestamp,
   Party |-> party, Description |-> description]

SMSRecord(direction, phone, name, time, status, message) ==
  [id |-> 0, party |-> [direction |-> direction, phone |-> phone, name |-> name],
   time |-> time, status |-> status, message |-> message]

UnifiedRecords ==
  { DataRecord(TypeSMS, "From", StrFrom \o Sp \o <<"+">> \o CountryCode \o LocalA \o Sp \o Amy,
               TsOn(2), <<"h", "i">>),
    DataRecord(TypeSMS, "To", StrTo \o Sp \o LocalA, TsOn(3), <<"H", "e", "y">>),
    DataRecord(TypeIM, "From", StrFrom \o Sp \o <<"0">> \o LocalB \o Sp \o Bob,
               TsOn(1), <<"y", "o">>),
    DataRecord(TypeSMS, "", StrFrom \o Sp, TsOn(3), <<"m", "o", "r", "e">>),
    DataRecord(TypeSMS, "", StrTo, TsOn(1), <<"o", "k">>),
    DataRecord(TypeCalendar, "", <<>>, TsOn(3), <<"m", "e", "e", "t">>),
    DataRecord(TypeMMS, "From", StrFrom \o Sp \o LocalB, TsOn(3), <<"p", "i", "c">>),
    DataRecord(TypeSMS, "From", StrFrom \o Sp \o <<"+">> \o CountryCode \o LocalA \o Sp \o Amy,
               TsOn(3), <<>>),
    DataRecord(TypeSMS, "From", StrFrom \o Sp \o Amy, TsOn(3), <<"h", "e", "y">>),
    DataRecord(TypeCall, "", CountryCode \o <<"7", "7", "7", "8", "7", "8", "7">>,
               TsOn(2), <<>>),
    DataRecord(TypeCall, "", Amy, TsOn(1), <<>>),
    DataRecord(TypeSMS, "From", StrFrom \o Sp \o LocalB, BadMonthTs, <<"l", "8">>),
    DataRecord(TypeSMS, "To", StrTo \o Sp \o <<"+">> \o CountryCode \o LocalA \o Sp \o Amy,
               NoShapeTs, <<"w", "h", "e", "n">>) }

LegacyRecords ==
  { SMSRecord("from", <<"+">> \o CountryCode \o Sp \o <<"7", "7", "8", "-", "1", "4", "0", "5">>,
              Amy, TsOn(2), StrUnread, <<"s", "u", "p">>),
    SMSRecord("from", LocalA, Amy, TsOn(1), StrRead, <<"o", "l", "d">>),
    SMSRecord("to", LocalB, <<>>, TsOn(3), StrSent, <<"f", "i", "n", "e">>),
    SMSRecord("from", <<"x">>, <<>>, TsOn(1), StrRead, <<"a">>),
    SMSRecord("from", <<"y">>, <<>>, MissingTs, StrUnread, <<"b">>),
    SMSRecord("to", LocalA, Amy, TsOn(2), StrSent, Undefined),
    SMSRecord("from", <<>>, Bob, TsOn(2), StrRead, <<"c">>) }

Records == UnifiedRecords \cup LegacyRecords

\* the longest input folded
MaxRecords == 3

\* the time the program runs at: after every timestamp of the export
StartTime == DateOf(2025, 1, 1, 0)

(***************************************************************************)
(* State                                                                    *)
(***************************************************************************)
VARIABLES
  pc,                 \* "fold" while processMessagesData runs its forEach, "done" after it returned
  data,               \* what became of each record of the input so far: skipped, or its raw phone
  lastRecord,         \* the record the forEach callback was last called with
  clock,              \* the current time, new Date()
  contactsMap,        \* Map<string, Contact>: keys in insertion order, and the contact at each key
  messagesByContact,  \* Map<string, Message[]>
  searchableData,     \* Map<string, string[]>
  lastContactKey,     \* string | null
  contacts            \* the contacts array processMessagesData returns

aggVars == <<pc, data, lastRecord, clock, contactsMap, messagesByContact, searchableData,
             lastContactKey, contacts>>

VARIABLES
  props,              \* ContactList's props: contacts and searchIndex
  loads,              \* how many times the data was loaded again
  searchQuery,        \* useState('')
  filteredContactIds, \* useState<string[] | null>(null)
  debounce,           \* the pending setTimeout(performSearch, 150)s, oldest first: the query of each
  nextIdRef,          \* useSearchWorker: nextIdRef.current
  resolversRef,       \* useSearchWorker: the ids resolversRef.current holds a resolver for
  isSearching,        \* useSearchWorker: useState(false)
  toWorker,           \* messages posted to the worker, not handled yet
  fromWorker,         \* replies posted by the worker, not handled yet
  index,              \* the worker's index
  corpus,             \* the searchIndex of the last init message the worker handled
  resolved,           \* the calls of the promises' resolve so far: request id and results
  mounted             \* ContactList is mounted: the worker lives and the listeners are set

searchVars == <<props, loads, searchQuery, filteredContactIds, debounce, nextIdRef,
                resolversRef, isSearching, toWorker, fromWorker, index, corpus,
                resolved, mounted>>

VARIABLES
  called,             \* the function called last, "none" before any call
  argument,           \* what it was called with
  returned            \* what it returned

callVars == <<called, argument, returned>>

vars == <<aggVars, searchVars, callVars>>

EmptyMap == [k \in {} |-> <<>>]
Has(map, k) == k \in DOMAIN map
Put(map, k, v) == [x \in DOMAIN map \cup {k} |-> IF x = k THEN v ELSE map[x]]

(***************************************************************************)
(* processMessagesData: the forEach callback                                *)
(***************************************************************************)
Skip == [skip |-> TRUE]

Extracted(phone, contactName, messageText, timestamp, isFromMe, messageId, isRead, isCallLog) ==
  [skip |-> FALSE, phone |-> phone, contactName |-> contactName,
   messageText |-> messageText, timestamp |-> timestamp, isFromMe |-> isFromMe,
   messageId |-> messageId, isRead |-> isRead, isCallLog |-> isCallLog]

\* a type check that lets every record through
IsConsumedTypeAny(type) == TRUE

\* only SMS Messages, Instant Messages and Call Log records are consumed
IsConsumedType(type) == type \in {TypeSMS, TypeIM, TypeCall}

\* a direction that forgets the empty "From:" party
IsFromMeOfDirectionOnly(direction, hasEmptyFrom) == direction = "To"

\* isFromMe = record.Direction === "To" || hasEmptyFrom
IsFromMeOf(direction, hasEmptyFrom) == direction = "To" \/ hasEmptyFrom

\* a unified branch that files a continuation with no contact before it under
\* its own Party
ExtractDataRecordOrphaned(record, lastKey, cmap, now) ==
  LET isCallLog == record.Type = TypeCall
      partyRaw == trim(IF Truthy(record.Party) THEN record.Party ELSE <<>>)
      hasEmptyFrom == hasEmptyParty(partyRaw, StrFrom)
      hasEmptyTo == hasEmptyParty(partyRaw, StrTo)
      partyInfo == extractPhoneFromParty(record.Party)
      messageText == IF Truthy(record.Description) THEN record.Description ELSE <<>>
      timestamp == parseNewTimestamp(record.Timestamp, now)
      isFromMe == IsFromMeOf(record.Direction, hasEmptyFrom)
      Out(phone, name) ==
        IF ~Truthy(phone) THEN Skip
        ELSE Extracted(phone, name, messageText, timestamp, isFromMe,
                       parseInt(record.ID), TRUE, isCallLog)
  IN  IF ~IsConsumedType(record.Type) THEN Skip
      ELSE IF ~isCallLog /\ ~Truthy(record.Description) THEN Skip
      ELSE IF partyInfo.found THEN Out(partyInfo.phone, partyInfo.name)
      ELSE IF hasEmptyFrom \/ hasEmptyTo
        THEN IF ~Truthy(lastKey) THEN Out(partyRaw, StrUnknown)
             ELSE IF ~Has(cmap.at, lastKey) THEN Skip
             ELSE Out(cmap.at[lastKey].phone, cmap.at[lastKey].name)
      ELSE IF isCallLog /\ Truthy(record.Party)
              /\ ~includes(record.Party, StrFrom) /\ ~includes(record.Party, StrTo)
        THEN Out(record.Party, StrUnknown)
      ELSE Skip

\* the unified branch of the callback
ExtractDataRecord(record, lastKey, cmap, now) ==
  LET isCallLog == record.Type = TypeCall
      partyRaw == trim(IF Truthy(record.Party) THEN record.Party ELSE <<>>)
      hasEmptyFrom == hasEmptyParty(partyRaw, StrFrom)
      hasEmptyTo == hasEmptyParty(partyRaw, StrTo)
      partyInfo == extractPhoneFromParty(record.Party)
      messageText == IF Truthy(record.Description) THEN record.Description ELSE <<>>
      timestamp == parseNewTimestamp(record.Timestamp, now)
      isFromMe == IsFromMeOf(record.Direction, hasEmptyFrom)
      Out(phone, name) ==
        IF ~Truthy(phone) THEN Skip
        ELSE Extracted(phone, name, messageText, timestamp, isFromMe,
                       parseInt(record.ID), TRUE, isCallLog)
  IN  IF ~IsConsumedType(record.Type) THEN Skip
      ELSE IF ~isCallLog /\ ~Truthy(record.Description) THEN Skip
      ELSE IF partyInfo.found THEN Out(partyInfo.phone, partyInfo.name)
      ELSE IF hasEmptyFrom \/ hasEmptyTo
        THEN IF ~Truthy(lastKey) THEN Skip
             ELSE IF ~Has(cmap.at, lastKey) THEN Skip
             ELSE Out(cmap.at[lastKey].phone, cmap.at[lastKey].name)
      ELSE IF isCallLog /\ Truthy(record.Party)
              /\ ~includes(record.Party, StrFrom) /\ ~includes(record.Party, StrTo)
        THEN Out(record.Party, StrUnknown)
      ELSE Skip

\* a legacy branch that asks for the phone only
ExtractSMSRecordOfPhone(record, now) ==
  IF ~Truthy(record.party.phone) THEN Skip
  ELSE Extracted(record.party.phone,
                 IF Truthy(record.party.name) THEN record.party.name ELSE StrUnknown,
                 record.message,
                 parseLegacyTimestamp(record.time, now),
                 record.party.direction = "to",
                 record.id,
                 record.status = StrRead,
                 FALSE)

\* the legacy branch of the callback
ExtractSMSRecord(record, now) ==
  IF ~Truthy(record.party.phone) \/ ~Truthy(record.message) THEN Skip
  ELSE Extracted(record.party.phone,
                 IF Truthy(record.party.name) THEN record.party.name ELSE StrUnknown,
                 record.message,
                 parseLegacyTimestamp(record.time, now),
                 record.party.direction = "to",
                 record.id,
                 record.status = StrRead,
                 FALSE)

Extract(record, lastKey, cmap, now) ==
  IF isDataRecord(record) THEN ExtractDataRecord(record, lastKey, cmap, now)
  ELSE ExtractSMSRecord(record, now)

\* a contact key that forgets the normalized phone
ContactKeyOfRawPhone(normalizedPhone, phone) == phone

\* const contactKey = normalizedPhone || phone
ContactKeyOf(normalizedPhone, phone) ==
  IF Truthy(normalizedPhone) THEN normalizedPhone ELSE phone

\* a push that starts a new list every time
PushMessageOnFreshList(map, contactKey, message) == Put(map, contactKey, <<message>>)

\* messagesByContact.get(contactKey).push(message), on a list created when absent
PushMessage(map, contactKey, message) ==
  Put(map, contactKey,
      Append(IF Has(map, contactKey) THEN map[contactKey] ELSE <<>>, message))

\* a Message that is read only when it was sent
MessageOfUnreadReceived(e) ==
  [id |-> e.messageId, text |-> e.messageText, timestamp |-> e.timestamp,
   isFromMe |-> e.isFromMe, isRead |-> e.isFromMe,
   status |-> mapSMSStatusToMessageStatus(IF e.isRead THEN StrRead ELSE StrUnread, e.isFromMe),
   isCallLog |-> e.isCallLog]

MessageOf(e) ==
  [id |-> e.messageId, text |-> e.messageText, timestamp |-> e.timestamp,
   isFromMe |-> e.isFromMe, isRead |-> e.isRead,
   status |-> mapSMSStatusToMessageStatus(IF e.isRead THEN StrRead ELSE StrUnread, e.isFromMe),
   isCallLog |-> e.isCallLog]

\* the terms pushed to searchableData for one record
SearchTermsOf(record) ==
  IF isDataRecord(record)
    THEN (IF Truthy(record.Party) THEN <<record.Party>> ELSE <<>>)
         \o (IF Truthy(record.Description) THEN <<record.Description>> ELSE <<>>)
    ELSE (IF Truthy(record.party.name) THEN <<record.party.name>> ELSE <<>>)
         \o (IF Truthy(record.party.phone) THEN <<record.party.phone>> ELSE <<>>)
         \o (IF Truthy(record.message) THEN <<record.message>> ELSE <<>>)

\* if (timestamp > existingContact.lastMessageTime)
IsNewer(timestamp, existingContact) == DateGreater(timestamp, existingContact.lastMessageTime)

\* an unread flag that follows the latest incoming message
UpdatedIsReadFollowsLatest(existingContact, isFromMe, isRead) ==
  IF ~isFromMe THEN isRead ELSE existingContact.isRead

\* only an incoming unread message clears isRead of an existing contact
UpdatedIsRead(existingContact, isFromMe, isRead) ==
  IF ~isFromMe /\ ~isRead THEN FALSE ELSE existingContact.isRead

\* a new contact that takes the read flag of its first record, sent or received
InitialIsReadOfRecord(isFromMe, isRead) == isRead

\* isRead: !isFromMe ? isRead : true
InitialIsRead(isFromMe, isRead) == IF ~isFromMe THEN isRead ELSE TRUE

\* an update that does not count the message
UpdateContactUncounted(existingContact, e) ==
  [existingContact EXCEPT
     !.lastMessage = IF IsNewer(e.timestamp, existingContact) THEN e.messageText ELSE @,
     !.lastMessageTime = IF IsNewer(e.timestamp, existingContact) THEN e.timestamp ELSE @,
     !.isRead = UpdatedIsRead(existingContact, e.isFromMe, e.isRead)]

\* an update that takes the phone and the name of the record folded
UpdateContactRenamed(existingContact, e) ==
  [existingContact EXCEPT
     !.phone = e.phone,
     !.name = e.contactName,
     !.lastMessage = IF IsNewer(e.timestamp, existingContact) THEN e.messageText ELSE @,
     !.lastMessageTime = IF IsNewer(e.timestamp, existingContact) THEN e.timestamp ELSE @,
     !.messageCount = @ + 1,
     !.isRead = UpdatedIsRead(existingContact, e.isFromMe, e.isRead)]

UpdateContact(existingContact, e) ==
  [existingContact EXCEPT
     !.lastMessage = IF IsNewer(e.timestamp, existingContact) THEN e.messageText ELSE @,
     !.lastMessageTime = IF IsNewer(e.timestamp, existingContact) THEN e.timestamp ELSE @,
     !.messageCount = @ + 1,
     !.isRead = UpdatedIsRead(existingContact, e.isFromMe, e.isRead)]

NewContact(e, normalizedPhone) ==
  [phone |-> e.phone, name |-> e.contactName, normalizedPhone |-> normalizedPhone,
   lastMessage |-> e.messageText, lastMessageTime |-> e.timestamp, messageCount |-> 1,
   isRead |-> InitialIsRead(e.isFromMe, e.isRead)]

\* whether the record's timestamp parser falls back to new Date()
UsesNow(record) ==
  IF isDataRecord(record)
    THEN parseNewTimestamp(record.Timestamp, 0) # parseNewTimestamp(record.Timestamp, 1)
    ELSE parseLegacyTimestamp(record.time, 0) # parseLegacyTimestamp(record.time, 1)

\* the export numbers its records: the n-th record carries the id n
Numbered(r, n) ==
  IF isDataRecord(r) THEN [r EXCEPT !.ID = DecimalString(n)] ELSE [r EXCEPT !.id = n]

AggInit ==
  /\ pc = "fold"
  /\ data = <<>>
  /\ lastRecord = Undefined
  /\ clock = StartTime
  /\ contactsMap = [order |-> <<>>, at |-> EmptyMap]
  /\ messagesByContact = EmptyMap
  /\ searchableData = EmptyMap
  /\ lastContactKey = Null
  /\ contacts = <<>>

\* the callback from `const normalizedPhone`: the record is attributed to its contact
Attribute(rec, e, normalizedPhone, contactKey) ==
  /\ data' = Append(data, [skip |-> FALSE, phone |-> e.phone])
  /\ lastContactKey' = contactKey
  /\ messagesByContact' = PushMessage(messagesByContact, contactKey, MessageOf(e))
  /\ searchableData' =
       Put(searchableData, contactKey,
           (IF Has(searchableData, contactKey) THEN searchableData[contactKey] ELSE <<>>)
             \o SearchTermsOf(rec))
  /\ contactsMap' =
       IF Has(contactsMap.at, contactKey)
         THEN [contactsMap EXCEPT !.at[contactKey] = UpdateContact(@, e)]
         ELSE [order |-> Append(contactsMap.order, contactKey),
               at |-> Put(contactsMap.at, contactKey, NewContact(e, normalizedPhone))]

\* the callback on record rec, whose fields were extracted as e
Callback(rec, e, now) ==
  /\ pc = "fold"
  /\ Len(data) < MaxRecords
  /\ lastRecord' = rec
  /\ clock' = now
  /\ UNCHANGED <<pc, contacts>>
  /\ UNCHANGED <<searchVars, callVars>>
  /\ IF e.skip
       THEN /\ data' = Append(data, [skip |-> TRUE, phone |-> <<>>])
            /\ UNCHANGED <<contactsMap, messagesByContact, searchableData, lastContactKey>>
       ELSE Attribute(rec, e, normalizePhoneNumber(e.phone),
                      ContactKeyOf(normalizePhoneNumber(e.phone), e.phone))

\* one call of the forEach callback, on the next record of the input
FoldRecord(r, now) ==
  Callback(Numbered(r, Len(data) + 1),
           Extract(Numbered(r, Len(data) + 1), lastContactKey, contactsMap, now),
           now)

Fold ==
  \E r \in Records :
    \E now \in (IF UsesNow(r) THEN {clock, clock + 1} ELSE {clock}) :
      FoldRecord(r, now)

(***************************************************************************)
(* processMessagesData: the two sorts after the forEach                     *)
(***************************************************************************)
Permuted(list, p) == [i \in 1..Len(list) |-> list[p[i]]]

\* the order a stable ascending sort by keys puts the indices in
StableOrder(keys) ==
  CHOOSE p \in Permutations(1..Len(keys)) :
    \A i, j \in 1..Len(keys) :
      i < j => \/ keys[p[i]] < keys[p[j]]
               \/ (keys[p[i]] = keys[p[j]] /\ p[i] < p[j])

\* Array.prototype.sort with the comparator (a, b) => keys(a) - keys(b): stable;
\* with an Invalid Date among the times the comparator is not consistent
\* and the order is whatever the engine leaves
SortOutcomes(list, keys, times) ==
  IF list = <<>> THEN {<<>>}
  ELSE IF \A i \in 1..Len(list) : IsValidDate(times[i])
    THEN {Permuted(list, StableOrder(keys))}
    ELSE {Permuted(list, p) : p \in Permutations(1..Len(list))}

\* messages.sort((a, b) => a.timestamp.getTime() - b.timestamp.getTime())
SortMessages(messages) ==
  SortOutcomes(messages,
               [i \in 1..Len(messages) |-> messages[i].timestamp],
               [i \in 1..Len(messages) |-> messages[i].timestamp])

\* Array.from(contactsMap.values()).sort((a, b) => b.lastMessageTime - a.lastMessageTime)
SortContacts(values) ==
  SortOutcomes(values,
               [i \in 1..Len(values) |-> 0 - values[i].lastMessageTime],
               [i \in 1..Len(values) |-> values[i].lastMessageTime])

\* every map that holds, at each key, one outcome of sorting that key's list
RECURSIVE SortedMaps(_, _)
SortedMaps(map, keys) ==
  IF keys = {} THEN {EmptyMap}
  ELSE LET k == CHOOSE k \in keys : TRUE
       IN  {Put(m, k, sorted) : m \in SortedMaps(map, keys \ {k}),
                                sorted \in SortMessages(map[k])}

MapValues(cmap) == [i \in 1..Len(cmap.order) |-> cmap.at[cmap.order[i]]]

\* the statements after the forEach, up to the return
Finish ==
  /\ pc = "fold"
  /\ pc' = "done"
  /\ messagesByContact' \in SortedMaps(messagesByContact, DOMAIN messagesByContact)
  /\ contacts' \in SortContacts(MapValues(contactsMap))
  /\ UNCHANGED <<data, lastRecord, clock, contactsMap, searchableData, lastContactKey>>
  /\ UNCHANGED <<searchVars, callVars>>

AggNext == Fold \/ Finish

(***************************************************************************)
(* MessagingApp: the search index built from what processMessagesData       *)
(* returned.  A Map<string, string> is the list of its entries in insertion *)
(* order.                                                                   *)
(***************************************************************************)
\* value || ''
OrEmpty(value) == IF Truthy(value) THEN value ELSE <<>>

\* Array.prototype.join
RECURSIVE join(_, _)
join(parts, separator) ==
  IF parts = <<>> THEN <<>>
  ELSE IF Len(parts) = 1 THEN parts[1]
  ELSE parts[1] \o separator \o join(Tail(parts), separator)

\* Map.prototype.get(key) || []
GetOrEmpty(map, key) == IF Has(map, key) THEN map[key] ELSE <<>>

\* Map.prototype.set on the entries of the index: the value of an existing
\* key is replaced in place, a new key is appended
IndexSet(entries, contactId, text) ==
  IF \E i \in 1..Len(entries) : entries[i].contactId = contactId
    THEN [i \in 1..Len(entries) |->
            IF entries[i].contactId = contactId
              THEN [contactId |-> contactId, text |-> text]
              ELSE entries[i]]
    ELSE Append(entries, [contactId |-> contactId, text |-> text])

\* the text aggregated for one contact, before it is lowercased
Aggregated(contact, messages, searchTerms) ==
  join(<<OrEmpty(contact.name), OrEmpty(contact.phone), OrEmpty(contact.normalizedPhone),
         OrEmpty(contact.lastMessage)>>
         \o [i \in 1..Len(messages) |-> OrEmpty(messages[i].text)]
         \o searchTerms,
       <<"\n">>)

\* const contactId = contact.normalizedPhone || contact.phone
ContactIdFor(contact) ==
  IF Truthy(contact.normalizedPhone) THEN contact.normalizedPhone ELSE contact.phone

\* the callback of contacts.forEach on one contact, whose id is id
IndexContact(entries, contact, id, messageMap, termMap) ==
  IndexSet(entries, id,
           toLowerCase(Aggregated(contact, GetOrEmpty(messageMap, id), GetOrEmpty(termMap, id))))

\* contacts.forEach(...) from the i-th contact on
RECURSIVE IndexContacts(_, _, _, _, _)
IndexContacts(entries, contactList, i, messageMap, termMap) ==
  IF i > Len(contactList) THEN entries
  ELSE IndexContacts(IndexContact(entries, contactList[i], ContactIdFor(contactList[i]),
                                  messageMap, termMap),
                     contactList, i + 1, messageMap, termMap)

\* the searchIndex memo
SearchIndexMemo(contactList, messageMap, termMap) ==
  IF Len(contactList) = 0 THEN <<>>
  ELSE IndexContacts(<<>>, contactList, 1, messageMap, termMap)

(***************************************************************************)
(* Search: the worker (search.worker.ts), the useSearchWorker hook and the  *)
(* search effects of ContactList                                            *)
(***************************************************************************)
\* the requests one session issues
MaxRequests == 2

Entry(contactId, text) == [contactId |-> contactId, text |-> text]
ContactRow(phone, normalizedPhone) == [phone |-> phone, normalizedPhone |-> normalizedPhone]

\* what MessagingApp hands to ContactList: the contacts and the search index
\* (contactId -> text, in the Map's insertion order)
DataSets ==
  { [contacts |-> <<ContactRow(<<"1">>, <<"1">>), ContactRow(<<"x">>, <<>>),
                    ContactRow(<<"+", "3">>, <<"3">>)>>,
     searchIndex |-> <<Entry(<<"1">>, <<"A", "m", "y">>),
                       Entry(<<"x">>, <<"b", "o", "b", "\n", "h", "i">>),
                       Entry(<<"3">>, <<"H", "I", "M">>)>>],
    [contacts |-> <<ContactRow(<<"x">>, <<>>), ContactRow(<<"4">>, <<"4">>)>>,
     searchIndex |-> <<Entry(<<"x">>, <<"a", "m", "y">>),
                       Entry(<<"4">>, <<"h", "m">>)>>] }

\* what the user types
Queries ==
  { <<>>, <<" ">>, <<"h", "i">>, <<" ", "A", "M", " ">>, <<"z">> }

\* null where a string[] is expected: useState<string[] | null>(null)
NullIds == <<Null>>

InitMessage(searchIndex) == [type |-> "init", searchIndex |-> searchIndex]
SearchMessage(id, query) == [type |-> "search", id |-> id, query |-> query]
ResultMessage(id, results) == [type |-> "result", id |-> id, results |-> results]

(***************************************************************************)
(* search.worker.ts                                                         *)
(***************************************************************************)
\* an init that adds the new entries to the ones the worker holds
WorkerIndexAdded(searchIndex) ==
  index \o [i \in 1..Len(searchIndex) |->
              Entry(searchIndex[i].contactId,
                    toLowerCase(IF Truthy(searchIndex[i].text) THEN searchIndex[i].text ELSE <<>>))]

\* index = searchIndex.map(({contactId, text}) => ({contactId, text: (text || '').toLowerCase()}))
WorkerIndexOf(searchIndex) ==
  [i \in 1..Len(searchIndex) |->
     Entry(searchIndex[i].contactId,
           toLowerCase(IF Truthy(searchIndex[i].text) THEN searchIndex[i].text ELSE <<>>))]

\* a query that is lowercased but not trimmed
LowerQueryUntrimmed(query) == toLowerCase(IF Truthy(query) THEN query ELSE <<>>)

\* const lowerQuery = (query || '').toLowerCase().trim()
LowerQuery(query) == trim(toLowerCase(IF Truthy(query) THEN query ELSE <<>>))

\* the loop over the index: the contactIds whose text includes lowerQuery, in index order
RECURSIVE WorkerMatches(_, _)
WorkerMatches(idx, lowerQuery) ==
  IF idx = <<>> THEN <<>>
  ELSE (IF includes(Head(idx).text, lowerQuery) THEN <<Head(idx).contactId>> ELSE <<>>)
       \o WorkerMatches(Tail(idx), lowerQuery)

\* a search that does not ask whether the query is empty
WorkerResultsOfAnyQuery(idx, query) == WorkerMatches(idx, LowerQuery(query))

\* the reply to a search message
WorkerResults(idx, query) ==
  IF ~Truthy(LowerQuery(query)) THEN <<>> ELSE WorkerMatches(idx, LowerQuery(query))

\* a worker that takes the newest message first
WorkerOnMessageNewestFirst ==
  /\ mounted
  /\ toWorker # <<>>
  /\ toWorker' = SubSeq(toWorker, 1, Len(toWorker) - 1)
  /\ LET m == toWorker[Len(toWorker)]
     IN  IF m.type = "init"
           THEN /\ index' = WorkerIndexOf(m.searchIndex)
                /\ corpus' = m.searchIndex
                /\ UNCHANGED fromWorker
           ELSE /\ fromWorker' = Append(fromWorker, ResultMessage(m.id, WorkerResults(index, m.query)))
                /\ UNCHANGED <<index, corpus>>
  /\ UNCHANGED <<props, loads, searchQuery, filteredContactIds, debounce, nextIdRef,
                 resolversRef, isSearching, resolved, mounted>>
  /\ UNCHANGED <<aggVars, callVars>>

\* self.onmessage, on the oldest message posted to the worker
WorkerOnMessage ==
  /\ mounted
  /\ toWorker # <<>>
  /\ toWorker' = Tail(toWorker)
  /\ LET m == Head(toWorker)
     IN  IF m.type = "init"
           THEN /\ index' = WorkerIndexOf(m.searchIndex)
                /\ corpus' = m.searchIndex
                /\ UNCHANGED fromWorker
           ELSE /\ fromWorker' = Append(fromWorker, ResultMessage(m.id, WorkerResults(index, m.query)))
                /\ UNCHANGED <<index, corpus>>
  /\ UNCHANGED <<props, loads, searchQuery, filteredContactIds, debounce, nextIdRef,
                 resolversRef, isSearching, resolved, mounted>>
  /\ UNCHANGED <<aggVars, callVars>>

(***************************************************************************)
(* useSearchWorker                                                          *)
(***************************************************************************)
\* one call of a promise's resolve
Resolution(id, results) == [id |-> id, results |-> results]

\* a forEach that stops after the first resolver
ResolveFirst(pending) ==
  IF pending = {} THEN <<>>
  ELSE <<Resolution(CHOOSE i \in pending : \A j \in pending : i <= j, <<>>)>>

\* resolversRef.current.forEach((resolve) => resolve([])): in insertion order,
\* which is the order of the ids
RECURSIVE ResolveAll(_)
ResolveAll(pending) ==
  IF pending = {} THEN <<>>
  ELSE LET id == CHOOSE i \in pending : \A j \in pending : i <= j
       IN  <<Resolution(id, <<>>)>> \o ResolveAll(pending \ {id})

\* a handler that hands the reply to the oldest pending resolver, whatever its id
HandleMessageByArrival ==
  /\ mounted
  /\ fromWorker # <<>>
  /\ fromWorker' = Tail(fromWorker)
  /\ LET m == Head(fromWorker)
         oldest == CHOOSE i \in resolversRef : \A j \in resolversRef : i <= j
     IN  IF resolversRef = {}
           THEN UNCHANGED <<resolversRef, resolved, filteredContactIds, isSearching>>
           ELSE /\ resolversRef' = resolversRef \ {oldest}
                /\ resolved' = Append(resolved, Resolution(oldest, m.results))
                /\ filteredContactIds' = m.results
                /\ isSearching' = IF resolversRef \ {oldest} = {} THEN FALSE ELSE isSearching
  /\ UNCHANGED <<props, loads, searchQuery, debounce, nextIdRef, toWorker, index, corpus,
                 mounted>>
  /\ UNCHANGED <<aggVars, callVars>>

\* a handler that resolves with every reply, pending or not
HandleMessageOfAnyReply ==
  /\ mounted
  /\ fromWorker # <<>>
  /\ fromWorker' = Tail(fromWorker)
  /\ resolversRef' = resolversRef \ {Head(fromWorker).id}
  /\ resolved' = Append(resolved, Resolution(Head(fromWorker).id, Head(fromWorker).results))
  /\ filteredContactIds' = Head(fromWorker).results
  /\ isSearching' = IF resolversRef \ {Head(fromWorker).id} = {} THEN FALSE ELSE isSearching
  /\ UNCHANGED <<props, loads, searchQuery, debounce, nextIdRef, toWorker, index, corpus,
                 mounted>>
  /\ UNCHANGED <<aggVars, callVars>>

\* a handler that clears the searching flag with every reply
HandleMessageClearsFlag ==
  /\ mounted
  /\ fromWorker # <<>>
  /\ fromWorker' = Tail(fromWorker)
  /\ resolversRef' = resolversRef \ {Head(fromWorker).id}
  /\ resolved' = IF Head(fromWorker).id \in resolversRef
                   THEN Append(resolved, Resolution(Head(fromWorker).id, Head(fromWorker).results))
                   ELSE resolved
  /\ filteredContactIds' =
       IF Head(fromWorker).id \in resolversRef THEN Head(fromWorker).results
       ELSE filteredContactIds
  /\ isSearching' = FALSE
  /\ UNCHANGED <<props, loads, searchQuery, debounce, nextIdRef, toWorker, index, corpus,
                 mounted>>
  /\ UNCHANGED <<aggVars, callVars>>

\* handleMessage, on the oldest reply: the resolver of the request resolves the
\* promise performSearch awaits, which then sets filteredContactIds
HandleMessage ==
  /\ mounted
  /\ fromWorker # <<>>
  /\ fromWorker' = Tail(fromWorker)
  /\ LET m == Head(fromWorker)
     IN  /\ resolversRef' = resolversRef \ {m.id}
         /\ resolved' = IF m.id \in resolversRef
                          THEN Append(resolved, Resolution(m.id, m.results)) ELSE resolved
         /\ filteredContactIds' =
              IF m.id \in resolversRef THEN m.results ELSE filteredContactIds
         /\ isSearching' = IF resolversRef \ {m.id} = {} THEN FALSE ELSE isSearching
  /\ UNCHANGED <<props, loads, searchQuery, debounce, nextIdRef, toWorker, index, corpus,
                 mounted>>
  /\ UNCHANGED <<aggVars, callVars>>

\* a timeout that is cleared when ContactList is unmounted
SearchTimeoutWhileMounted(id) ==
  /\ mounted
  /\ id \in resolversRef
  /\ resolversRef' = resolversRef \ {id}
  /\ resolved' = Append(resolved, Resolution(id, <<>>))
  /\ filteredContactIds' = <<>>
  /\ isSearching' = IF resolversRef \ {id} = {} THEN FALSE ELSE isSearching
  /\ UNCHANGED <<props, loads, searchQuery, debounce, nextIdRef, toWorker, fromWorker,
                 index, corpus, mounted>>
  /\ UNCHANGED <<aggVars, callVars>>

\* the 5000 ms timeout of request id fires
SearchTimeout(id) ==
  /\ id \in resolversRef
  /\ resolversRef' = resolversRef \ {id}
  /\ resolved' = Append(resolved, Resolution(id, <<>>))
  /\ filteredContactIds' = IF mounted THEN <<>> ELSE filteredContactIds
  /\ isSearching' = IF resolversRef \ {id} = {} THEN FALSE ELSE isSearching
  /\ UNCHANGED <<props, loads, searchQuery, debounce, nextIdRef, toWorker, fromWorker,
                 index, corpus, mounted>>
  /\ UNCHANGED <<aggVars, callVars>>

\* handleError: the worker's error event
HandleError ==
  /\ mounted
  /\ filteredContactIds' = IF resolversRef # {} THEN <<>> ELSE filteredContactIds
  /\ resolved' = resolved \o ResolveAll(resolversRef)
  /\ resolversRef' = {}
  /\ isSearching' = FALSE
  /\ UNCHANGED <<props, loads, searchQuery, debounce, nextIdRef, toWorker, fromWorker,
                 index, corpus, mounted>>
  /\ UNCHANGED <<aggVars, callVars>>

(***************************************************************************)
(* ContactList                                                              *)
(***************************************************************************)
\* const contactId = contact.normalizedPhone || contact.phone
ContactIdOf(contact) ==
  IF Truthy(contact.normalizedPhone) THEN contact.normalizedPhone ELSE contact.phone

\* !searchQuery.trim()
IsBlank(query) == trim(query) = <<>>

\* a memo that filters by the last result whatever the query is
FilteredContactsByIdsOnly(contactList, query, ids) ==
  IF ids = NullIds THEN contactList
  ELSE SelectSeq(contactList,
                 LAMBDA c : \E i \in 1..Len(ids) :
                   ids[i] = (IF Truthy(c.normalizedPhone) THEN c.normalizedPhone ELSE c.phone))

\* the filteredContacts memo: the contacts shown
FilteredContacts(contactList, query, ids) ==
  IF IsBlank(query) \/ ids = NullIds THEN contactList
  ELSE SelectSeq(contactList,
                 LAMBDA c : \E i \in 1..Len(ids) : ids[i] = ContactIdOf(c))

filteredContacts == FilteredContacts(props.contacts, searchQuery, filteredContactIds)

\* the index-update effect: initIndex(workerSearchIndex) when it is not empty
InitIndexPosts(searchIndex) ==
  IF Len(searchIndex) > 0 THEN <<InitMessage(searchIndex)>> ELSE <<>>

\* an effect cleanup that leaves the timeout pending
ClearTimeoutForgotten(timeouts) == timeouts

\* return () => clearTimeout(timeoutId): the timeout the effect set, the last
\* one set, is cleared if it is still pending
ClearTimeout(timeouts) == SubSeq(timeouts, 1, Len(timeouts) - 1)

\* the user edits the search box; the search effect runs again: its cleanup
\* clears the pending timeout, then a blank query resets the filter and any
\* other query schedules performSearch
SetSearchQuery(q) ==
  /\ mounted
  /\ q # searchQuery
  /\ searchQuery' = q
  /\ IF IsBlank(q)
       THEN /\ filteredContactIds' = NullIds
            /\ debounce' = ClearTimeout(debounce)
       ELSE /\ debounce' = Append(ClearTimeout(debounce), q)
            /\ UNCHANGED filteredContactIds
  /\ UNCHANGED <<props, loads, nextIdRef, resolversRef, isSearching, toWorker,
                 fromWorker, index, corpus, resolved, mounted>>
  /\ UNCHANGED <<aggVars, callVars>>

\* the 150 ms timeout fires: performSearch calls search(searchQuery)
PerformSearch ==
  /\ mounted
  /\ debounce # <<>>
  /\ nextIdRef < MaxRequests
  /\ debounce' = Tail(debounce)
  /\ isSearching' = TRUE
  /\ nextIdRef' = nextIdRef + 1
  /\ resolversRef' = resolversRef \cup {nextIdRef + 1}
  /\ toWorker' = Append(toWorker, SearchMessage(nextIdRef + 1, Head(debounce)))
  /\ UNCHANGED <<props, loads, searchQuery, filteredContactIds, fromWorker, index, corpus,
                 resolved, mounted>>
  /\ UNCHANGED <<aggVars, callVars>>

\* each of the data sets is loaded at most once
MaxLoads == Cardinality(DataSets) - 1

\* MessagingApp loads other data: the props change and the index is sent again
LoadData(d) ==
  /\ mounted
  /\ loads < MaxLoads
  /\ d # props
  /\ loads' = loads + 1
  /\ props' = d
  /\ toWorker' = toWorker \o InitIndexPosts(d.searchIndex)
  /\ UNCHANGED <<searchQuery, filteredContactIds, debounce, nextIdRef, resolversRef,
                 isSearching, fromWorker, index, corpus, resolved, mounted>>
  /\ UNCHANGED <<aggVars, callVars>>

\* Math.max, Math.min
MathMax(a, b) == IF a > b THEN a ELSE b
MathMin(a, b) == IF a < b THEN a ELSE b

\* String.prototype.slice(start, end) with 0 <= start
slice(s, start, end) ==
  IF start >= MathMin(end, Len(s)) THEN <<>> ELSE SubSeq(s, start + 1, MathMin(end, Len(s)))

\* the characters of context on each side of a match, and the longest
\* snippet of a message that does not match
ContextWidth == 20
FallbackWidth == 60

MetaOf(snippet, messageId) == [snippet |-> snippet, messageId |-> messageId]

\* the snippet of a message text around the index idx of the query in lowerText
SnippetAt(text, idx, queryLength) ==
  (IF MathMax(0, idx - ContextWidth) > 0 THEN <<Ellipsis>> ELSE <<>>)
    \o slice(text, MathMax(0, idx - ContextWidth),
             MathMin(Len(text), idx + queryLength + ContextWidth))
    \o (IF MathMin(Len(text), idx + queryLength + ContextWidth) < Len(text)
          THEN <<Ellipsis>> ELSE <<>>)

\* the message the loop over messages breaks at: the first one with a text
\* whose lowercase holds the query; 0 when the loop runs to its end
FoundAt(messages, query) ==
  LET hits == {i \in 1..Len(messages) :
                 /\ Truthy(messages[i].text)
                 /\ indexOf(toLowerCase(messages[i].text), query) >= 0}
  IN  IF hits = {} THEN 0 ELSE CHOOSE i \in hits : \A j \in hits : i <= j

\* the snippet of the most recent message when no message matched
FallbackSnippet(text) ==
  IF Len(text) > FallbackWidth THEN slice(text, 0, FallbackWidth) \o <<Ellipsis>> ELSE text

\* what the loop body sets for one contact: one entry, or none
MetaOfContact(messages, query, found) ==
  IF found > 0
    THEN <<MetaOf(SnippetAt(messages[found].text,
                            indexOf(toLowerCase(messages[found].text), query),
                            Len(query)),
                  messages[found].id)>>
  ELSE IF Truthy(messages[Len(messages)].text)
    THEN <<MetaOf(FallbackSnippet(messages[Len(messages)].text), messages[Len(messages)].id)>>
  ELSE <<>>

\* processChunk over the contacts from position i on, chunk after chunk, when
\* nothing cancels the effect: the Map it has set at the end
RECURSIVE ProcessChunk(_, _, _, _, _)
ProcessChunk(result, byContact, ids, query, i) ==
  IF i > Len(ids) THEN result
  ELSE IF ~Has(byContact, ids[i]) \/ byContact[ids[i]] = <<>>
    THEN ProcessChunk(result, byContact, ids, query, i + 1)
  ELSE ProcessChunk(
         (IF MetaOfContact(byContact[ids[i]], query, FoundAt(byContact[ids[i]], query)) = <<>>
            THEN result
            ELSE Put(result, ids[i],
                     Head(MetaOfContact(byContact[ids[i]], query,
                                        FoundAt(byContact[ids[i]], query))))),
         byContact, ids, query, i + 1)

\* the match metadata effect: the matchMetaByContact it sets
MatchMetaEffect(query, byContact, ids) ==
  IF ~Truthy(toLowerCase(trim(query))) \/ ids = NullIds \/ ids = <<>> THEN EmptyMap
  ELSE ProcessChunk(EmptyMap, byContact, ids, toLowerCase(trim(query)), 1)

\* ContactList is unmounted: the cleanup of the search effect clears the pending
\* timeout, the cleanup of useSearchWorker removes the listeners and terminates
\* the worker; the timeouts of the pending requests stay set
Unmount ==
  /\ mounted
  /\ mounted' = FALSE
  /\ debounce' = ClearTimeout(debounce)
  /\ UNCHANGED <<props, loads, searchQuery, filteredContactIds, nextIdRef, resolversRef,
                 isSearching, toWorker, fromWorker, index, corpus, resolved>>
  /\ UNCHANGED <<aggVars, callVars>>

\* ContactList is mounted with the first data: the worker is created and the
\* index posted to it
SearchInit ==
  /\ props \in DataSets
  /\ loads = 0
  /\ searchQuery = <<>>
  /\ filteredContactIds = NullIds
  /\ debounce = <<>>
  /\ nextIdRef = 0
  /\ resolversRef = {}
  /\ isSearching = FALSE
  /\ toWorker = InitIndexPosts(props.searchIndex)
  /\ fromWorker = <<>>
  /\ index = <<>>
  /\ corpus = <<>>
  /\ resolved = <<>>
  /\ mounted = TRUE

SearchNext ==
  \/ \E q \in Queries : SetSearchQuery(q)
  \/ PerformSearch
  \/ WorkerOnMessage
  \/ HandleMessage
  \/ \E id \in resolversRef : SearchTimeout(id)
  \/ HandleError
  \/ \E d \in DataSets : LoadData(d)
  \/ Unmount

(***************************************************************************)
(* Specifications: the aggregation of one export, and one search session    *)
(***************************************************************************)
\* no ContactList is mounted while the export is aggregated
SearchIdle ==
  /\ props = [contacts |-> <<>>, searchIndex |-> <<>>]
  /\ loads = 0
  /\ searchQuery = <<>>
  /\ filteredContactIds = NullIds
  /\ debounce = <<>>
  /\ nextIdRef = 0
  /\ resolversRef = {}
  /\ isSearching = FALSE
  /\ toWorker = <<>>
  /\ fromWorker = <<>>
  /\ index = <<>>
  /\ corpus = <<>>
  /\ resolved = <<>>
  /\ mounted = FALSE

\* no function is called on its own
CallIdle ==
  /\ called = "none"
  /\ argument = <<>>
  /\ returned = <<>>

\* processMessagesData is called on one export
InitAgg == AggInit /\ SearchIdle /\ CallIdle

SpecAgg == InitAgg /\ [][AggNext]_vars

\* ContactList is mounted on the result of an earlier aggregation
InitSearch == AggInit /\ SearchInit /\ CallIdle

SpecSearch == InitSearch /\ [][SearchNext]_vars

\* the same session when time passes: a timeout that is set and not cleared fires
SpecSearchLive ==
  InitSearch /\ [][SearchNext]_vars /\ \A id \in 1..MaxRequests : WF_resolversRef(SearchTimeout(id))

(***************************************************************************)
(* Calls of single functions, on inputs drawn from pools                    *)
(***************************************************************************)
\* the longest run of digits taken from a body, the longest context around a
\* match, and the most U+0130 before it
MaxDigits == 12
MaxContext == 22
MaxDotted == 1

Repeat(c, n) == [i \in 1..n |-> c]

\* phone strings: a prefix, the first digits of a body, a suffix
PhonePrefixes ==
  { <<>>, <<"+">>, <<"9", "6", "0">>, <<"+", "9", "6", "0", " ">>, <<"0">>, <<"0", "0">>,
    <<"9", "6">>, <<"(", "0", ")">> }
PhoneBodies ==
  { <<"7", "7", "8", "1", "4", "0", "5", "1", "2", "3", "4", "5", "6">>,
    <<"0", "9", "6", "0", "7", "7", "8", "1", "4", "0", "5", "1", "2">>,
    <<"6", "0", "7", "7", "8", "1", "4", "0", "5", "1", "2", "3", "4">> }
PhoneSuffixes == { <<>>, <<"-", "1">>, <<" ", "x">> }
Phones ==
  { pre \o Take(body, n) \o suf :
      pre \in PhonePrefixes, body \in PhoneBodies, n \in 0..MaxDigits, suf \in PhoneSuffixes }

\* message lists of one contact, oldest first
MessageLists ==
  { <<[id |-> 1, text |-> <<"h", "e", "l", "l", "o">>],
      [id |-> 2, text |-> <<"H", "i", " ", "y", "o", "u">>],
      [id |-> 3, text |-> <<"h", "i">>]>>,
    <<[id |-> 4, text |-> <<"y", "o">>], [id |-> 5, text |-> <<"b", "y", "e">>]>>,
    <<[id |-> 6, text |-> <<"o", "h", " ", "H", "I">>], [id |-> 7, text |-> <<>>]>>,
    <<[id |-> 8, text |-> <<>>], [id |-> 9, text |-> Repeat("n", FallbackWidth + 1)]>> }

\* a text with a match of "xyz" in capitals: U+0130s, then filling, before it
\* and filling after it
TextAround(dotted, before, after) ==
  Repeat(CapitalDottedI, dotted) \o Repeat("a", before) \o <<"X", "y", "Z">>
    \o Repeat("b", after)

\* the inputs of the match metadata effect: the query, the messages of the
\* contacts "1" and "2", and the result of the search
MetaInputs ==
  { [searchQuery |-> q, messagesByContact |-> [c \in {<<"1">>, <<"2">>} |->
                                                 IF c = <<"1">> THEN m1 ELSE m2],
     filteredContactIds |-> ids] :
      q \in {<<"h", "i">>, <<" ", "Y", "O", " ">>, <<"z">>},
      m1 \in MessageLists, m2 \in MessageLists,
      ids \in {<<<<"1">>>>, <<<<"2">>, <<"1">>>>} }
  \cup
  { [searchQuery |-> <<" ", "x", "Y", "z">>,
     messagesByContact |-> [c \in {<<"1">>} |->
                              <<[id |-> 1, text |-> TextAround(dotted, before, after)]>>],
     filteredContactIds |-> <<<<"1">>>>] :
      dotted \in 0..MaxDotted, before \in 0..MaxContext, after \in 0..MaxContext }

\* the most records of one export handed to processMessagesData in a call
MaxExport == 3

\* processMessagesData as a function of the export and of the current time
\* each callback reads: the maps and lastContactKey before the forEach
NoRecordSeen ==
  [contactsMap |-> [order |-> <<>>, at |-> EmptyMap], messagesByContact |-> EmptyMap,
   searchableData |-> EmptyMap, lastContactKey |-> Null]

\* the maps after the callback attributed rec, extracted as e, to contactKey
Attributed(st, rec, e, normalizedPhone, contactKey) ==
  [lastContactKey |-> contactKey,
   messagesByContact |-> PushMessage(st.messagesByContact, contactKey, MessageOf(e)),
   searchableData |->
     Put(st.searchableData, contactKey,
         (IF Has(st.searchableData, contactKey) THEN st.searchableData[contactKey] ELSE <<>>)
           \o SearchTermsOf(rec)),
   contactsMap |->
     IF Has(st.contactsMap.at, contactKey)
       THEN [st.contactsMap EXCEPT !.at[contactKey] = UpdateContact(@, e)]
       ELSE [order |-> Append(st.contactsMap.order, contactKey),
             at |-> Put(st.contactsMap.at, contactKey, NewContact(e, normalizedPhone))]]

\* the maps after the callback ran on rec, extracted as e
CallbackOn(st, rec, e) ==
  IF e.skip THEN st
  ELSE Attributed(st, rec, e, normalizePhoneNumber(e.phone),
                  ContactKeyOf(normalizePhoneNumber(e.phone), e.phone))

\* data.forEach(callback) from the i-th record on, the current time being now
RECURSIVE ForEach(_, _, _, _)
ForEach(st, records, i, now) ==
  IF i > Len(records) THEN st
  ELSE ForEach(CallbackOn(st, records[i],
                          Extract(records[i], st.lastContactKey, st.contactsMap, now)),
               records, i + 1, now)

\* the values processMessagesData can return once the forEach left the maps st
ReturnedFrom(st) ==
  { [contacts |-> c, messagesByContact |-> m, searchableData |-> st.searchableData] :
      c \in SortContacts(MapValues(st.contactsMap)),
      m \in SortedMaps(st.messagesByContact, DOMAIN st.messagesByContact) }

processMessagesData(records, now) == ReturnedFrom(ForEach(NoRecordSeen, records, 1, now))

\* the records of a set, numbered as an export numbers them
RECURSIVE Export(_, _)
Export(records, n) ==
  IF records = {} THEN <<>>
  ELSE LET r == CHOOSE r \in records : TRUE
       IN  <<Numbered(r, n)>> \o Export(records \ {r}, n + 1)

Exports == {Export(records, 1) : records \in {S \in SUBSET Records : Cardinality(S) <= MaxExport}}

\* the most messages posted to one worker in a call
MaxPosted == 3

\* a worker that forgets its index when it has searched it
WorkerIndexSearchedAway(idx, m) ==
  IF m.type = "init" THEN WorkerIndexOf(m.searchIndex) ELSE <<>>

\* self.onmessage as a function: the index after the worker handled m
WorkerIndexAfter(idx, m) ==
  IF m.type = "init" THEN WorkerIndexOf(m.searchIndex) ELSE idx

\* self.onmessage as a function: what the worker posts when it handles m
WorkerPosts(idx, m) ==
  IF m.type = "init" THEN <<>> ELSE <<ResultMessage(m.id, WorkerResults(idx, m.query))>>

\* the worker, started with an empty index, handles the messages from the
\* i-th on: after each message, what it posted and the index it holds
RECURSIVE WorkerHandles(_, _, _)
WorkerHandles(idx, messages, i) ==
  IF i > Len(messages) THEN <<>>
  ELSE <<[posted |-> WorkerPosts(idx, messages[i]),
          index |-> WorkerIndexAfter(idx, messages[i])]>>
       \o WorkerHandles(WorkerIndexAfter(idx, messages[i]), messages, i + 1)

\* what the main thread can post: the index of a data set, or a search whose
\* query may be missing, empty or white space; a search carries its position
\* as id
Postable(n) ==
  {InitMessage(d.searchIndex) : d \in DataSets}
    \cup {SearchMessage(n, q) : q \in Queries \cup {Undefined, <<"\n", " ">>}}

RECURSIVE PostedUpTo(_)
PostedUpTo(n) ==
  IF n = 0 THEN {<<>>}
  ELSE PostedUpTo(n - 1)
       \cup {Append(ms, m) : ms \in {x \in PostedUpTo(n - 1) : Len(x) = n - 1},
                             m \in Postable(n)}

\* each behaviour is one call
CallWorker(messages) ==
  /\ called = "none"
  /\ called' = "worker"
  /\ argument' = [messages |-> messages]
  /\ returned' = [handled |-> WorkerHandles(<<>>, messages, 1)]
  /\ UNCHANGED <<aggVars, searchVars>>

CallProcessMessagesData(records) ==
  /\ called = "none"
  /\ called' = "processMessagesData"
  /\ argument' = [data |-> records]
  /\ returned' =
       [order \in Permutations(1..Len(records)) |->
          [now \in {StartTime, StartTime + 1} |->
             processMessagesData(Permuted(records, order), now)]]
  /\ UNCHANGED <<aggVars, searchVars>>

CallNormalizePhoneNumber(phone) ==
  /\ called = "none"
  /\ called' = "normalizePhoneNumber"
  /\ argument' = [phone |-> phone]
  /\ returned' = [value |-> normalizePhoneNumber(phone)]
  /\ UNCHANGED <<aggVars, searchVars>>

CallMatchMetaEffect(in) ==
  /\ called = "none"
  /\ called' = "matchMetaEffect"
  /\ argument' = in
  /\ returned' = [value |-> MatchMetaEffect(in.searchQuery, in.messagesByContact,
                                            in.filteredContactIds)]
  /\ UNCHANGED <<aggVars, searchVars>>

CallNext ==
  \/ \E records \in Exports : CallProcessMessagesData(records)
  \/ \E messages \in PostedUpTo(MaxPosted) : CallWorker(messages)
  \/ \E phone \in Phones : CallNormalizePhoneNumber(phone)
  \/ \E in \in MetaInputs : CallMatchMetaEffect(in)

InitCalls == AggInit /\ SearchIdle /\ CallIdle

SpecCalls == InitCalls /\ [][CallNext]_vars

(***************************************************************************)
(* Properties of the aggregation (checked under SpecAgg)                    *)
(***************************************************************************)
\* the positions of the input whose record was accepted (not skipped)
Accepted == {i \in 1..Len(data) : ~data[i].skip}

\* the normalized phone of the accepted record at position i
NormalizedAt(i) == normalizePhoneNumber(data[i].phone)

\* the keys whose message list holds the message of the record at position i
\* (the n-th record of the export carries the id n)
KeysHolding(i) ==
  {k \in DOMAIN messagesByContact :
     \E j \in 1..Len(messagesByContact[k]) : messagesByContact[k][j].id = i}

\* the records at i and j were folded into one contact, which counts n messages
FoldedTogether(i, j, n) ==
  \E k \in DOMAIN contactsMap.at :
    /\ KeysHolding(i) = {k}
    /\ KeysHolding(j) = {k}
    /\ contactsMap.at[k].messageCount = n

\* C1, as stated: accepted records whose raw phones have equal
\* normalizePhoneNumber results are folded into one Contact, whose
\* messageCount is the number of accepted records with that normalized phone.
C1_KeyCollapseAnyResult ==
  \A i, j \in Accepted :
    NormalizedAt(i) = NormalizedAt(j) =>
      FoldedTogether(i, j, Cardinality({m \in Accepted : NormalizedAt(m) = NormalizedAt(i)}))

\* C1, amended: the same for accepted records whose raw phones have equal and
\* non-empty normalizePhoneNumber results (a phone that normalizes to the
\* empty string is keyed by its raw string).
C1_KeyCollapse ==
  \A i, j \in Accepted :
    (NormalizedAt(i) = NormalizedAt(j) /\ NormalizedAt(i) # <<>>) =>
      FoldedTogether(i, j, Cardinality({m \in Accepted : NormalizedAt(m) = NormalizedAt(i)}))

\* two accepted records with different raw spellings of one phone
C1_Witness ==
  \E i, j \in Accepted :
    /\ data[i].phone # data[j].phone
    /\ NormalizedAt(i) = NormalizedAt(j)
    /\ NormalizedAt(i) # <<>>

\* the messages of a list that carry the greatest valid timestamp of the list
\* and, among those, came first in the input
NewestFirstSeen(messages) ==
  {i \in 1..Len(messages) :
     /\ IsValidDate(messages[i].timestamp)
     /\ \A j \in 1..Len(messages) :
          IsValidDate(messages[j].timestamp) =>
            /\ messages[j].timestamp <= messages[i].timestamp
            /\ messages[j].timestamp = messages[i].timestamp => messages[i].id <= messages[j].id}

HasValidDate(messages) == \E i \in 1..Len(messages) : IsValidDate(messages[i].timestamp)

\* C2: after any prefix of the input, each Contact's lastMessageTime is the
\* maximum timestamp of the messages folded into it so far, and lastMessage is
\* the text of the earliest message of the input that carries this maximum.
C2_LastMessageIsNewest ==
  \A k \in DOMAIN contactsMap.at :
    HasValidDate(messagesByContact[k]) =>
      \E i \in NewestFirstSeen(messagesByContact[k]) :
        /\ contactsMap.at[k].lastMessageTime = messagesByContact[k][i].timestamp
        /\ contactsMap.at[k].lastMessage = messagesByContact[k][i].text

\* C3: unread monotonicity: a contact into which an incoming unread message
\* was folded has isRead = FALSE, in every later state, whatever was folded
\* into it afterwards.
C3_UnreadMonotone ==
  \A k \in DOMAIN contactsMap.at :
    (\E i \in 1..Len(messagesByContact[k]) :
       ~messagesByContact[k][i].isFromMe /\ ~messagesByContact[k][i].isRead)
    => ~contactsMap.at[k].isRead

\* an incoming unread message followed, in the input, by an incoming read one
\* and by an outgoing one of the same contact
C3_Witness ==
  /\ pc = "fold"
  /\ \E k \in DOMAIN contactsMap.at :
       /\ Len(messagesByContact[k]) = 3
       /\ ~messagesByContact[k][1].isFromMe /\ ~messagesByContact[k][1].isRead
       /\ ~messagesByContact[k][2].isFromMe /\ messagesByContact[k][2].isRead
       /\ messagesByContact[k][3].isFromMe

RECURSIVE TotalMessages(_, _)
TotalMessages(map, keys) ==
  IF keys = {} THEN 0
  ELSE LET k == CHOOSE k \in keys : TRUE
       IN  Len(map[k]) + TotalMessages(map, keys \ {k})

\* C4: every accepted record has exactly one Message, held by the list of
\* exactly one key, and the lists hold as many Messages as records were
\* accepted.
C4_OneMessagePerRecord ==
  /\ \A i \in Accepted :
       /\ Cardinality(KeysHolding(i)) = 1
       /\ \A k \in KeysHolding(i) :
            Cardinality({j \in 1..Len(messagesByContact[k]) :
                           messagesByContact[k][j].id = i}) = 1
  /\ TotalMessages(messagesByContact, DOMAIN messagesByContact) = Cardinality(Accepted)

\* three records: two accepted ones of one contact and one of another
C4_Witness ==
  /\ Cardinality(Accepted) = 3
  /\ Cardinality(DOMAIN messagesByContact) = 2

\* C5: when processMessagesData has returned, every message list is sorted
\* ascending by timestamp, and messages with equal timestamps are in the
\* order of the input.
C5_MessagesSorted ==
  pc = "done" =>
    \A k \in DOMAIN messagesByContact :
      \A i, j \in 1..Len(messagesByContact[k]) :
        (/\ i < j
         /\ IsValidDate(messagesByContact[k][i].timestamp)
         /\ IsValidDate(messagesByContact[k][j].timestamp))
        => \/ messagesByContact[k][i].timestamp < messagesByContact[k][j].timestamp
           \/ /\ messagesByContact[k][i].timestamp = messagesByContact[k][j].timestamp
              /\ messagesByContact[k][i].id < messagesByContact[k][j].id

\* C6: the contacts returned are sorted descending by lastMessageTime.
C6_ContactsSorted ==
  pc = "done" =>
    \A i, j \in 1..Len(contacts) :
      (/\ i < j
       /\ IsValidDate(contacts[i].lastMessageTime)
       /\ IsValidDate(contacts[j].lastMessageTime))
      => contacts[i].lastMessageTime >= contacts[j].lastMessageTime

\* the record a step of the forEach has just handled
Handled == lastRecord'
Stepped == Len(data') = Len(data) + 1

\* the Party of a unified record is "From:" or "To:" and nothing but white space
IsContinuationParty(party, prefix) == startsWith(party, prefix) /\ trim(Drop(party, Len(prefix))) = <<>>

\* a record the callback is to skip: a unified record of another Type, a
\* record with a required field missing, a Party that cannot be parsed
IsToBeSkipped(record) ==
  IF {"ID", "Type", "Description"} \subseteq DOMAIN record
    THEN \/ record.Type \notin {"SMS Messages", "Instant Messages", "Call Log"}
         \/ record.Type # "Call Log" /\ record.Description = <<>>
         \/ /\ ~extractPhoneFromParty(record.Party).found
            /\ ~IsContinuationParty(record.Party, StrFrom)
            /\ ~IsContinuationParty(record.Party, StrTo)
            /\ ~(record.Type = "Call Log" /\ record.Party # <<>>
                 /\ ~includes(record.Party, StrFrom) /\ ~includes(record.Party, StrTo))
    ELSE record.party.phone \in {<<>>, Undefined} \/ record.message \in {<<>>, Undefined}

\* C7: a skipped record changes neither the contact registry, nor a message
\* list, nor a bag of searchable terms, nor the carry-over of the last
\* contact, and the forEach goes on with the next record.
C7_SkipChangesNothing ==
  [][(Stepped /\ IsToBeSkipped(Handled)) =>
       /\ UNCHANGED <<contactsMap, messagesByContact, searchableData, lastContactKey>>
       /\ pc' = "fold"]_vars

\* an accepted record and two skipped ones, after which the forEach ended
C7_Witness ==
  /\ Len(data) = 3
  /\ ~data[1].skip
  /\ data[2].skip
  /\ data[3].skip /\ IsToBeSkipped(lastRecord)
  /\ pc = "done"

\* the key of the most recent accepted record of the input so far
LastAttributedKeys ==
  UNION {KeysHolding(i) : i \in {a \in Accepted : \A b \in Accepted : b <= a}}

\* a unified record of a consumed Type, with a Description unless it is a call
\* log, whose Party is an empty "From:" or "To:"
IsContinuation(record) ==
  /\ {"ID", "Type", "Description"} \subseteq DOMAIN record
  /\ record.Type \in {"SMS Messages", "Instant Messages", "Call Log"}
  /\ record.Type = "Call Log" \/ record.Description # <<>>
  /\ IsContinuationParty(record.Party, StrFrom) \/ IsContinuationParty(record.Party, StrTo)

\* C8: a continuation record is appended to the message list of the contact
\* of the most recent accepted record, under that contact's key and creating
\* no key, and its Message has isFromMe = TRUE when the empty party is "From:".
C8_ContinuationAttribution ==
  [][(Stepped /\ IsContinuation(Handled) /\ Accepted # {}) =>
       \E k \in LastAttributedKeys :
         /\ DOMAIN messagesByContact' = DOMAIN messagesByContact
         /\ DOMAIN contactsMap'.at = DOMAIN contactsMap.at
         /\ lastContactKey' = k
         /\ Len(messagesByContact'[k]) = Len(messagesByContact[k]) + 1
         /\ \A o \in DOMAIN messagesByContact \ {k} :
              messagesByContact'[o] = messagesByContact[o]
         /\ LET m == messagesByContact'[k][Len(messagesByContact'[k])]
            IN  /\ m.id = Len(data')
                /\ m.text = Handled.Description
                /\ IsContinuationParty(Handled.Party, StrFrom) => m.isFromMe]_vars

\* an accepted record, a skipped one, then an accepted continuation "From:"
C8_Witness ==
  /\ Len(data) = 3
  /\ ~data[1].skip
  /\ data[2].skip
  /\ ~data[3].skip
  /\ IsContinuation(lastRecord)
  /\ IsContinuationParty(lastRecord.Party, StrFrom)

\* the status the table gives for a direction and a source status
StatusByTable(isFromMe, status) ==
  LET given == IF status = Undefined THEN <<>> ELSE toLowerCase(status)
  IN  IF ~isFromMe
        THEN IF given = <<"r", "e", "a", "d">> THEN "read" ELSE "delivered"
        ELSE IF given = <<"s", "e", "n", "t">> THEN "delivered"
             ELSE IF given = <<"r", "e", "a", "d">> THEN "read"
             ELSE IF given \in {<<"u", "n", "s", "e", "n", "t">>,
                                <<"f", "a", "i", "l", "e", "d">>,
                                <<"e", "r", "r", "o", "r">>} THEN "failed"
             ELSE "sent"

\* the status of the source record: a unified record carries none and is
\* taken as read
SourceStatus(record) ==
  IF {"ID", "Type", "Description"} \subseteq DOMAIN record THEN StrRead ELSE record.status

\* C20: the Message made from an accepted record has the status the table
\* gives for the message's direction and the status of the source record.
C20_StatusMapping ==
  [][(Stepped /\ ~data'[Len(data')].skip) =>
       LET list == messagesByContact'[lastContactKey']
           m == list[Len(list)]
       IN  m.status = StatusByTable(m.isFromMe, SourceStatus(Handled))]_vars

(***************************************************************************)
(* Properties of the search (checked under SpecSearch)                      *)
(***************************************************************************)
\* the worker takes a search message off its queue
WorkerTakesSearch ==
  /\ toWorker # <<>>
  /\ Head(toWorker).type = "search"
  /\ toWorker' = Tail(toWorker)

\* the main thread posts a search message
SearchPosted ==
  /\ Len(toWorker') = Len(toWorker) + 1
  /\ toWorker'[Len(toWorker')].type = "search"

NoDuplicates(list) == \A i, j \in 1..Len(list) : list[i] = list[j] => i = j

\* the contactIds of the installed corpus whose text, lowercased, contains the
\* lowercased and trimmed query
CorpusMatches(query) ==
  {corpus[i].contactId : i \in
     {n \in 1..Len(corpus) : includes(toLowerCase(corpus[n].text), trim(toLowerCase(query)))}}

\* C9: the worker's reply to a search whose trimmed query is not empty holds
\* exactly the contactIds of the installed corpus whose text contains the
\* lowercased, trimmed query, whatever the letter case of either, each once.
C9_SearchCorrect ==
  [][(WorkerTakesSearch /\ trim(Head(toWorker).query) # <<>>) =>
       /\ Len(fromWorker') = Len(fromWorker) + 1
       /\ LET reply == fromWorker'[Len(fromWorker')]
          IN  /\ reply.type = "result"
              /\ reply.id = Head(toWorker).id
              /\ NoDuplicates(reply.results)
              /\ {reply.results[i] : i \in 1..Len(reply.results)}
                   = CorpusMatches(Head(toWorker).query)]_vars

\* the reply to a query that has capitals and spaces around it names some of
\* the contacts, but not all
C9_Witness ==
  /\ nextIdRef = 1
  /\ searchQuery # trim(toLowerCase(searchQuery))
  /\ debounce = <<>>
  /\ fromWorker # <<>>
  /\ fromWorker[1].id = 1
  /\ fromWorker[1].results # <<>>
  /\ Len(fromWorker[1].results) < Len(corpus)

\* C10: while the query is empty or white space, the contacts shown are all
\* the contacts, whatever replies, timeouts or errors of earlier requests
\* arrive, and no search request is posted to the worker for such a query.
C10_EmptyQueryShowsAll ==
  /\ [](IsBlank(searchQuery) => filteredContacts = props.contacts)
  /\ [][SearchPosted => /\ ~IsBlank(searchQuery)
                        /\ ~IsBlank(toWorker'[Len(toWorker')].query)]_vars

\* the query is white space and the result of an earlier request, which names
\* fewer contacts, has arrived after it was typed
C10_Witness ==
  /\ searchQuery = <<" ">>
  /\ filteredContactIds # NullIds
  /\ Len(filteredContactIds) < Len(props.contacts)
  /\ filteredContacts = props.contacts

\* handleMessage takes a reply off the channel
ReplyHandled ==
  /\ fromWorker # <<>>
  /\ fromWorker' = Tail(fromWorker)

\* C11: a reply whose id is not the id of the latest request issued does not
\* change the contacts shown.
C11_StaleDisregarded ==
  [][(ReplyHandled /\ Head(fromWorker).id # nextIdRef) =>
       filteredContacts' = filteredContacts]_vars

\* the results request id was resolved with, one for each call of its resolve
ResolutionsOf(id) == {i \in 1..Len(resolved) : resolved[i].id = id}

\* request id leaves the pending set and no reply is taken off the channel
\* nor an error handled: its timeout fired
TimedOut(id) ==
  /\ id \in resolversRef
  /\ id \notin resolversRef'
  /\ ~ReplyHandled
  /\ resolversRef' # {}

SearchIds(channel) ==
  LET searches == SelectSeq(channel, LAMBDA m : m.type # "init")
  IN  [i \in 1..Len(searches) |-> searches[i].id]

Increasing(ids) == \A i, j \in 1..Len(ids) : i < j => ids[i] < ids[j]

\* C14: the id of a request is larger than every id issued before it; the
\* worker's reply carries the id of the search it answers; a reply resolves
\* the pending request of its own id, with the reply's results, and no other.
C14_IdCorrelation ==
  /\ [][SearchPosted =>
          LET m == toWorker'[Len(toWorker')]
          IN  /\ m.id = nextIdRef'
              /\ m.id > nextIdRef
              /\ resolversRef' = resolversRef \cup {m.id}
              /\ \A id \in resolversRef : id < m.id
              /\ \A i \in 1..Len(resolved) : resolved[i].id < m.id
              /\ Increasing(SearchIds(toWorker'))]_vars
  /\ [][WorkerTakesSearch =>
          /\ Len(fromWorker') = Len(fromWorker) + 1
          /\ fromWorker'[Len(fromWorker')].id = Head(toWorker).id]_vars
  /\ [][ReplyHandled =>
          LET m == Head(fromWorker)
          IN  /\ resolversRef' = resolversRef \ {m.id}
              /\ resolved' = IF m.id \in resolversRef
                               THEN Append(resolved, Resolution(m.id, m.results))
                               ELSE resolved]_vars

\* two requests were issued and each was resolved once, under its own id; the
\* second got the results of its own reply, which are shown
C14_Witness ==
  /\ Len(resolved) = 2
  /\ resolved[1] = Resolution(1, <<>>)
  /\ resolved[2].id = 2
  /\ resolved[2].results # <<>>
  /\ filteredContactIds = resolved[2].results
  /\ toWorker = <<>>
  /\ fromWorker = <<>>

\* the worker takes the message at the head of its queue
WorkerTakes ==
  /\ toWorker # <<>>
  /\ Len(toWorker') = Len(toWorker) - 1
  /\ index' # index \/ corpus' # corpus \/ fromWorker' # fromWorker \/ toWorker' # toWorker

\* C15: the worker takes the oldest message of its queue; a search message
\* gets exactly one result reply, an init message none, and the replies come
\* in the order the search messages arrived in.
C15_WorkerInOrder ==
  /\ [][WorkerTakes =>
          /\ toWorker' = Tail(toWorker)
          /\ IF Head(toWorker).type = "init"
               THEN fromWorker' = fromWorker
               ELSE /\ Len(fromWorker') = Len(fromWorker) + 1
                    /\ SubSeq(fromWorker', 1, Len(fromWorker)) = fromWorker
                    /\ fromWorker'[Len(fromWorker')].type = "result"
                    /\ fromWorker'[Len(fromWorker')].id = Head(toWorker).id]_vars
  /\ [](Increasing(SearchIds(fromWorker \o toWorker)))

\* the worker handled an init and two searches, and its two replies wait in
\* the order of the searches
C15_Witness ==
  /\ index # <<>>
  /\ toWorker = <<>>
  /\ Len(fromWorker) = 2
  /\ fromWorker[1].id = 1
  /\ fromWorker[2].id = 2
  /\ fromWorker[1].results # fromWorker[2].results

\* the worker takes an init message off its queue
WorkerTakesInit ==
  /\ toWorker # <<>>
  /\ Head(toWorker).type = "init"
  /\ toWorker' = Tail(toWorker)

\* the contactIds of the entries of a corpus that match a query, in the order
\* of the corpus; none for a blank query
AnswerOn(entries, query) ==
  LET q == trim(toLowerCase(query))
      hits == SelectSeq(entries, LAMBDA e : q # <<>> /\ includes(toLowerCase(e.text), q))
  IN  [i \in 1..Len(hits) |-> hits[i].contactId]

\* C16: a search is answered on the corpus of the last init the worker took
\* before it, and on nothing else: an init replaces the whole index, and an
\* init taken after a search leaves the replies already given as they are.
C16_CorpusSnapshot ==
  /\ [](/\ Len(index) = Len(corpus)
        /\ \A i \in 1..Len(corpus) :
             /\ index[i].contactId = corpus[i].contactId
             /\ index[i].text = toLowerCase(corpus[i].text))
  /\ [][WorkerTakesSearch =>
          fromWorker'[Len(fromWorker')].results = AnswerOn(corpus, Head(toWorker).query)]_vars
  /\ [][WorkerTakesInit =>
          /\ corpus' = Head(toWorker).searchIndex
          /\ fromWorker' = fromWorker]_vars

\* the data was loaded again: the first search was answered on the first
\* corpus, the second on the corpus that replaced it, and the first reply
\* still waits as it was given
C16_Witness ==
  /\ loads = 1
  /\ corpus = props.searchIndex
  /\ toWorker = <<>>
  /\ Len(fromWorker) = 2
  /\ \E d \in DataSets :
       /\ d # props
       /\ \E q \in Queries :
            /\ fromWorker[1].results = AnswerOn(d.searchIndex, q)
            /\ fromWorker[1].results # AnswerOn(corpus, q)
  /\ fromWorker[2].results # <<>>

(***************************************************************************)
(* Properties of single functions (checked under SpecCalls)                 *)
(***************************************************************************)
\* the 0-based offsets at which a text holds the query, letter case aside
MatchOffsets(text, query) ==
  {i \in 0..(Len(text) - Len(query)) :
     toLowerCase(SubSeq(text, i + 1, i + Len(query))) = query}

\* the snippet of a text that holds the query at offset idx: at most
\* ContextWidth characters before the match, the match, at most ContextWidth
\* characters after it, and an ellipsis on each side where text was cut off
BoundedSnippet(text, idx, queryLength) ==
  LET start == IF idx > ContextWidth THEN idx - ContextWidth ELSE 0
      after == idx + queryLength
      end == IF Len(text) - after > ContextWidth THEN after + ContextWidth ELSE Len(text)
  IN  (IF start > 0 THEN <<Ellipsis>> ELSE <<>>)
        \o SubSeq(text, start + 1, idx) \o SubSeq(text, idx + 1, after)
        \o SubSeq(text, after + 1, end)
        \o (IF end < Len(text) THEN <<Ellipsis>> ELSE <<>>)

\* the contacts of the search result the effect was called with
ResultContacts == {argument.filteredContactIds[i] : i \in 1..Len(argument.filteredContactIds)}

\* the first message of a list whose text holds the query, 0 when none does
FirstHolding(messages, query) ==
  LET holding == {i \in 1..Len(messages) : MatchOffsets(messages[i].text, query) # {}}
  IN  IF holding = {} THEN 0 ELSE CHOOSE i \in holding : \A j \in holding : i <= j

\* C17: the snippet reported for a message whose text holds the query is at
\* most 20 characters of the text before the first match, the match, and at
\* most 20 characters after it, with an ellipsis in front exactly when text
\* before it was cut off and one behind exactly when text after it was.
C17_SnippetBounds ==
  called = "matchMetaEffect" =>
    \A c \in ResultContacts :
      LET messages == argument.messagesByContact[c]
          query == toLowerCase(trim(argument.searchQuery))
          first == FirstHolding(messages, query)
      IN  first > 0 =>
            LET text == messages[first].text
                idx == CHOOSE i \in MatchOffsets(text, query) :
                         \A j \in MatchOffsets(text, query) : i <= j
            IN  /\ Has(returned.value, c)
                /\ returned.value[c].snippet = BoundedSnippet(text, idx, Len(query))
                /\ Len(returned.value[c].snippet) <= Len(query) + 2 * ContextWidth + 2

\* C18: for every contact of the search result, the message id reported is
\* the id of the first message of the contact's list whose text holds the
\* query, and the id of the last, most recent, message when none holds it.
C18_MatchLocation ==
  called = "matchMetaEffect" =>
    \A c \in ResultContacts :
      LET messages == argument.messagesByContact[c]
          query == toLowerCase(trim(argument.searchQuery))
          first == FirstHolding(messages, query)
      IN  /\ Has(returned.value, c)
          /\ returned.value[c].messageId =
               (IF first > 0 THEN messages[first].id ELSE messages[Len(messages)].id)

\* C19: normalizing the result of a normalization gives that result again.
C19_NormalizeIdempotent ==
  called = "normalizePhoneNumber" =>
    normalizePhoneNumber(returned.value) = returned.value

\* a phone with a leading zero and punctuation got the country code, and its
\* normalization is not the string of its digits
C19_Witness ==
  /\ called = "normalizePhoneNumber"
  /\ returned.value # StripNonDigits(argument.phone)
  /\ StripNonDigits(argument.phone) # argument.phone
  /\ startsWith(StripNonDigits(argument.phone), <<"0">>)
  /\ startsWith(returned.value, CountryCode)
  /\ normalizePhoneNumber(returned.value) = returned.value

(***************************************************************************)
(* Properties of processMessagesData as a function (checked under SpecCalls) *)
(***************************************************************************)
\* the timestamp field of a record
TimestampField(record) == IF isDataRecord(record) THEN record.Timestamp ELSE record.time

\* what the callback extracts from a record that is the first of its export
ExtractedAlone(record) == Extract(record, Null, NoRecordSeen.contactsMap, StartTime)

\* the contact key of a record that names its phone itself
OwnContactKey(record) ==
  ContactKeyOf(normalizePhoneNumber(ExtractedAlone(record).phone), ExtractedAlone(record).phone)

\* the records are accepted on their own and are all of one contact
OfOneContact(records) ==
  /\ records # <<>>
  /\ \A i \in 1..Len(records) : ~ExtractedAlone(records[i]).skip
  /\ \A i, j \in 1..Len(records) : OwnContactKey(records[i]) = OwnContactKey(records[j])

\* the records carry timestamps, no two of them the same
DistinctTimestamps(records) ==
  /\ \A i \in 1..Len(records) : TimestampField(records[i]).present
  /\ \A i, j \in 1..Len(records) :
       i # j => TimestampField(records[i]) # TimestampField(records[j])

\* what C21 is about in a returned value: the message lists and, of every
\* contact, lastMessage, lastMessageTime, messageCount and isRead
OrderFree(value) ==
  [messagesByContact |-> value.messagesByContact,
   contacts |-> [i \in 1..Len(value.contacts) |->
                   [lastMessage |-> value.contacts[i].lastMessage,
                    lastMessageTime |-> value.contacts[i].lastMessageTime,
                    messageCount |-> value.contacts[i].messageCount,
                    isRead |-> value.contacts[i].isRead]]]

\* the values returned in the calls on every order of the export, run at now
ReturnedInAnyOrder(now) ==
  UNION {returned[order][now] : order \in DOMAIN returned}

\* C21: for the records of one contact with pairwise distinct timestamps,
\* every order of the input gives the same message list, ascending by
\* timestamp, and the same lastMessage, lastMessageTime (those of the greatest
\* timestamp), messageCount and isRead.
C21_OrderIndependent ==
  (/\ called = "processMessagesData"
   /\ OfOneContact(argument.data)
   /\ DistinctTimestamps(argument.data))
  => \A now \in {StartTime, StartTime + 1} :
       /\ Cardinality({OrderFree(value) : value \in ReturnedInAnyOrder(now)}) = 1
       /\ \A value \in ReturnedInAnyOrder(now) :
            \A k \in DOMAIN value.messagesByContact :
              LET messages == value.messagesByContact[k]
              IN  /\ \A i, j \in 1..Len(messages) :
                       i < j => messages[i].timestamp < messages[j].timestamp
                  /\ value.contacts[1].lastMessageTime = messages[Len(messages)].timestamp
                  /\ value.contacts[1].lastMessage = messages[Len(messages)].text
                  /\ value.contacts[1].messageCount = Len(messages)

\* the values returned by the runs, at any time, on the export in one order
ReturnedInAnyRun(order) ==
  UNION {returned[order][now] : now \in DOMAIN returned[order]}

\* C22: determinism: the runs of processMessagesData on one record sequence,
\* malformed timestamps and records included, all return the same contacts,
\* the same message lists and the same searchable terms.
C22_Deterministic ==
  called = "processMessagesData" =>
    \A order \in DOMAIN returned :
      \A first, second \in ReturnedInAnyRun(order) :
        /\ first.contacts = second.contacts
        /\ first.messagesByContact = second.messagesByContact
        /\ first.searchableData = second.searchableData

(***************************************************************************)
(* Further properties of the aggregation (checked under SpecAgg)            *)
(***************************************************************************)
\* the raw phone and the display name a record carries for its contact
RawPhoneOf(record) ==
  IF ~isDataRecord(record) THEN record.party.phone
  ELSE IF extractPhoneFromParty(record.Party).found
    THEN extractPhoneFromParty(record.Party).phone
    ELSE record.Party

DisplayNameOf(record) ==
  IF ~isDataRecord(record)
    THEN (IF Truthy(record.party.name) THEN record.party.name ELSE StrUnknown)
  ELSE IF extractPhoneFromParty(record.Party).found
    THEN extractPhoneFromParty(record.Party).name
    ELSE StrUnknown

\* C23: a contact's phone and name are the raw phone and the display name
\* ("Unknown" when absent) of the record that created it; no later record
\* changes its phone, name or normalizedPhone; and no contact is removed, from
\* the map or from the contacts returned.
C23_ContactFrame ==
  [][/\ \A k \in DOMAIN contactsMap.at :
          /\ k \in DOMAIN contactsMap'.at
          /\ contactsMap'.at[k].phone = contactsMap.at[k].phone
          /\ contactsMap'.at[k].name = contactsMap.at[k].name
          /\ contactsMap'.at[k].normalizedPhone = contactsMap.at[k].normalizedPhone
     /\ \A k \in DOMAIN contactsMap'.at \ DOMAIN contactsMap.at :
          /\ contactsMap'.at[k].phone = RawPhoneOf(Handled)
          /\ contactsMap'.at[k].name = DisplayNameOf(Handled)
     /\ pc' = "done" =>
          /\ Len(contacts') = Cardinality(DOMAIN contactsMap.at)
          /\ \A k \in DOMAIN contactsMap.at :
               \E i \in 1..Len(contacts') : contacts'[i] = contactsMap.at[k]
    ]_vars

\* a returned contact into which a record with another raw phone and another
\* display name than its own was folded after the one that created it
C23_Witness ==
  /\ pc = "done"
  /\ Len(data) >= 2
  /\ ~data[Len(data)].skip
  /\ data[Len(data)].phone = RawPhoneOf(lastRecord)
  /\ \E k \in DOMAIN contactsMap.at :
       /\ contactsMap.at[k].messageCount >= 2
       /\ lastContactKey = k
       /\ contactsMap.at[k].phone # RawPhoneOf(lastRecord)
       /\ contactsMap.at[k].name # DisplayNameOf(lastRecord)

\* the message the step pushed on the list of the contact it attributed
PushedMessage ==
  messagesByContact'[lastContactKey'][Len(messagesByContact'[lastContactKey'])]

\* the step folded a record into a contact
Folded == Stepped /\ ~data'[Len(data')].skip

\* C24: folding an outgoing record leaves the isRead of its contact as it was,
\* and a contact created by an outgoing record starts with isRead = TRUE,
\* whatever the status of the record.
C24_OutgoingKeepsIsRead ==
  [][(Folded /\ PushedMessage.isFromMe) =>
       contactsMap'.at[lastContactKey'].isRead =
         (IF Has(contactsMap.at, lastContactKey')
            THEN contactsMap.at[lastContactKey'].isRead
            ELSE TRUE)
    ]_vars

\* one contact created, read, by an outgoing record that is not read itself,
\* and another that stayed unread when an outgoing record was folded into it
C24_Witness ==
  /\ pc = "fold"
  /\ \E k \in DOMAIN contactsMap.at :
       /\ messagesByContact[k][1].isFromMe
       /\ ~messagesByContact[k][1].isRead
       /\ contactsMap.at[k].isRead
  /\ \E k \in DOMAIN contactsMap.at :
       /\ Len(messagesByContact[k]) >= 2
       /\ messagesByContact[k][Len(messagesByContact[k])].isFromMe
       /\ lastContactKey = k
       /\ ~contactsMap.at[k].isRead

\* the timestamp has the shape DD/MM/YYYY HH:MM:SS, with a day and a month
\* of the calendar
HasTimestampShape(ts) ==
  /\ ts.present
  /\ Len(ts.date) = 3
  /\ ts.hasTime
  /\ ts.date[1] \in 1..31
  /\ ts.date[2] \in 1..12

\* C25: the timestamp parsers are total: the timestamp of every record folded
\* is a valid time, and it is the current time when the record's timestamp is
\* missing or has not the shape DD/MM/YYYY HH:MM:SS; such a record is kept.
C25_ParsersTotal ==
  [][Folded =>
       /\ IsValidDate(PushedMessage.timestamp)
       /\ ~HasTimestampShape(TimestampField(Handled)) => PushedMessage.timestamp = clock'
    ]_vars

\* the Party is a digit string and nothing else
IsBareDigitString(party) ==
  /\ party # <<>>
  /\ \A i \in 1..Len(party) : party[i] \in Digit

\* a unified record of a consumed Type whose Party matches no party pattern
HasUnparsedParty(record) ==
  /\ {"ID", "Type", "Description"} \subseteq DOMAIN record
  /\ record.Type \in {"SMS Messages", "Instant Messages", "Call Log"}
  /\ ~extractPhoneFromParty(record.Party).found

\* C26: a unified record of a consumed Type whose Party matches no party
\* pattern is skipped, unless its Party is a bare "From:" or "To:" or it is a
\* call log whose Party is a bare digit string; the latter is attributed to
\* that digit string as phone, with the name "Unknown".
C26_UnparsedPartySkipped ==
  [][(Stepped /\ HasUnparsedParty(Handled)) =>
       IF Handled.Type = "Call Log" /\ IsBareDigitString(Handled.Party)
         THEN /\ ~data'[Len(data')].skip
              /\ data'[Len(data')].phone = Handled.Party
              /\ ~Has(contactsMap.at, lastContactKey') =>
                   /\ contactsMap'.at[lastContactKey'].phone = Handled.Party
                   /\ contactsMap'.at[lastContactKey'].name = StrUnknown
         ELSE \/ IsContinuationParty(Handled.Party, StrFrom)
              \/ IsContinuationParty(Handled.Party, StrTo)
              \/ data'[Len(data')].skip
    ]_vars

\* a field of a legacy record is present and not empty
IsGiven(field) == field # Undefined /\ field # <<>>

\* C27: a legacy record is accepted exactly when its party.phone and its
\* message are present and not empty, and the Message of an accepted legacy
\* record has isFromMe = (party.direction = "to") and isRead = (status = "Read").
C27_LegacyContract ==
  [][(Stepped /\ {"party", "message"} \subseteq DOMAIN Handled) =>
       /\ ~data'[Len(data')].skip <=> (IsGiven(Handled.party.phone) /\ IsGiven(Handled.message))
       /\ ~data'[Len(data')].skip =>
            /\ PushedMessage.text = Handled.message
            /\ PushedMessage.isFromMe = (Handled.party.direction = "to")
            /\ PushedMessage.isRead = (Handled.status = <<"R", "e", "a", "d">>)
    ]_vars

\* legacy records folded, one sent and not read, one received and not read,
\* and then a legacy record without message skipped
C27_Witness ==
  /\ Len(data) = 3
  /\ ~data[1].skip
  /\ ~data[2].skip
  /\ data[3].skip
  /\ "message" \in DOMAIN lastRecord
  /\ ~IsGiven(lastRecord.message)
  /\ \E k \in DOMAIN messagesByContact :
       messagesByContact[k][1].isFromMe /\ ~messagesByContact[k][1].isRead
  /\ \E k \in DOMAIN messagesByContact :
       ~messagesByContact[k][1].isFromMe /\ ~messagesByContact[k][1].isRead

\* the texts of the unified records
UnifiedTexts == {r.Description : r \in UnifiedRecords}

\* C28: the Message of every unified record has isRead = TRUE, and folding a
\* unified record, whatever its Direction, creates a read contact or leaves
\* the isRead of its contact as it was; so a contact all of whose records are
\* unified has isRead = TRUE.
C28_UnifiedIsRead ==
  [][(Folded /\ {"ID", "Type", "Description"} \subseteq DOMAIN Handled) =>
       /\ PushedMessage.isRead
       /\ contactsMap'.at[lastContactKey'].isRead =
            (IF Has(contactsMap.at, lastContactKey')
               THEN contactsMap.at[lastContactKey'].isRead
               ELSE TRUE)
    ]_vars

\* a read contact into which only received unified records were folded, the
\* last of them just now
C28_Witness ==
  /\ pc = "fold"
  /\ Len(data) >= 2
  /\ ~data[Len(data)].skip
  /\ {"ID", "Type", "Description"} \subseteq DOMAIN lastRecord
  /\ lastRecord.Direction = "From"
  /\ Has(contactsMap.at, lastContactKey)
  /\ Len(messagesByContact[lastContactKey]) >= 2
  /\ \A i \in 1..Len(messagesByContact[lastContactKey]) :
       /\ messagesByContact[lastContactKey][i].text \in UnifiedTexts
       /\ ~messagesByContact[lastContactKey][i].isFromMe
       /\ messagesByContact[lastContactKey][i].isRead
  /\ contactsMap.at[lastContactKey].isRead

(***************************************************************************)
(* Properties of the search index (checked under SpecAgg)                   *)
(***************************************************************************)
\* the index MessagingApp builds from what processMessagesData returned
BuiltIndex == SearchIndexMemo(contacts, messagesByContact, searchableData)

\* the texts of a message list, in the order of the list
Bodies(messages) == [i \in 1..Len(messages) |-> messages[i].text]

\* the list is in chronological order
IsChronological(messages) ==
  \A i, j \in 1..Len(messages) :
    (i < j /\ IsValidDate(messages[i].timestamp) /\ IsValidDate(messages[j].timestamp))
      => messages[i].timestamp <= messages[j].timestamp

\* the lines of an index entry, the text being cut at every line feed
RECURSIVE LinesOf(_)
LinesOf(text) ==
  IF \A i \in 1..Len(text) : text[i] # "\n" THEN <<text>>
  ELSE LET n == CHOOSE n \in 1..Len(text) : text[n] = "\n" /\ \A m \in 1..(n - 1) : text[m] # "\n"
       IN  <<Take(text, n - 1)>> \o LinesOf(Drop(text, n))

\* the strings of a list, each in lower case
Lowered(strings) == [i \in 1..Len(strings) |-> toLowerCase(strings[i])]

\* C29: the search index has exactly one entry per contact, keyed by the
\* contact's key, and no other entry; the text of an entry is, in lower case
\* and one per line: the name, the raw phone, the normalized phone, the
\* last-message text, the body of every message in chronological order, and
\* every searchable term.
C29_SearchIndex ==
  pc = "done" =>
    /\ Len(BuiltIndex) = Cardinality(DOMAIN contactsMap.at)
    /\ {BuiltIndex[i].contactId : i \in 1..Len(BuiltIndex)} = DOMAIN contactsMap.at
    /\ \A i \in 1..Len(BuiltIndex) :
         LET k == BuiltIndex[i].contactId
         IN  /\ IsChronological(messagesByContact[k])
             /\ LinesOf(BuiltIndex[i].text) =
                  Lowered(<<contactsMap.at[k].name, contactsMap.at[k].phone,
                            contactsMap.at[k].normalizedPhone, contactsMap.at[k].lastMessage>>
                            \o Bodies(messagesByContact[k])
                            \o searchableData[k])

(***************************************************************************)
(* Further properties of the search (checked under SpecSearch)              *)
(***************************************************************************)
\* C30: debounce: at most one dispatch is scheduled at any time, and it is
\* for the current query, so that a change of the query cancels the dispatch
\* scheduled for the text it supersedes; a search request is posted only when
\* a scheduled dispatch fires, for the text that is still the current query.
C30_Debounce ==
  [][/\ Len(debounce') <= 1
     /\ \A i \in 1..Len(debounce') : debounce'[i] = searchQuery'
     /\ SearchPosted =>
          /\ debounce = <<searchQuery>>
          /\ toWorker'[Len(toWorker')].query = searchQuery
          /\ searchQuery' = searchQuery
          /\ debounce' = <<>>
    ]_vars

\* a request was dispatched for one text, and a dispatch is scheduled for the
\* text the user typed after it
C30_Witness ==
  /\ nextIdRef = 1
  /\ \E i \in 1..Len(resolved) : resolved[i].id = 1
  /\ Len(debounce) = 1
  /\ debounce[1] = searchQuery
  /\ ~IsBlank(searchQuery)
  /\ isSearching = FALSE

(***************************************************************************)
(* Properties of the aggregation, continued (checked under SpecAgg)         *)
(***************************************************************************)
\* C31: a continuation record met before any record was attributed is
\* skipped: it creates no contact, no message and no searchable term, and the
\* carry-over of the last contact stays empty.
C31_OrphanContinuationSkipped ==
  [][(Stepped /\ IsContinuation(Handled) /\ Accepted = {}) =>
       /\ data'[Len(data')].skip
       /\ contactsMap' = [order |-> <<>>, at |-> EmptyMap]
       /\ messagesByContact' = EmptyMap
       /\ searchableData' = EmptyMap
       /\ lastContactKey' = Null
    ]_vars

\* a continuation "From:" was handled as the second record of an export of
\* which nothing was attributed, and nothing is attributed after it
C31_Witness ==
  /\ Len(data) = 2
  /\ Accepted = {}
  /\ IsContinuation(lastRecord)
  /\ IsContinuationParty(lastRecord.Party, StrFrom)
  /\ lastContactKey = Null
  /\ contactsMap.order = <<>>
  /\ pc = "done"

(***************************************************************************)
(* Properties of single functions, continued (checked under SpecCalls)      *)
(***************************************************************************)
\* the digits of a phone string, separators left out
DigitsOf(phone) == SelectSeq(phone, LAMBDA c : c \in Digit)

\* the local numbers a digit string spells: itself, what follows a leading
\* "0", what follows a leading "960", when that has 7 digits and does not
\* begin with "960"
LocalNumbersSpelled(digits) ==
  { n \in { digits,
            IF Len(digits) > 0 /\ digits[1] = "0" THEN Tail(digits) ELSE <<>>,
            IF Len(digits) > 3 /\ SubSeq(digits, 1, 3) = <<"9", "6", "0">>
              THEN SubSeq(digits, 4, Len(digits)) ELSE <<>> } :
      Len(n) = 7 /\ SubSeq(n, 1, 3) # <<"9", "6", "0">> }

\* C32: for a 7-digit local number n that does not begin with "960", the
\* spellings n, "0" n, "960" n and "+960" n, with any separators that are no
\* digits, all normalize to "960" n.
C32_SpellingsCollapse ==
  called = "normalizePhoneNumber" =>
    \A n \in LocalNumbersSpelled(DigitsOf(argument.phone)) :
      returned.value = <<"9", "6", "0">> \o n

\* a local number spelled with a leading zero and separators was normalized
C32_Witness ==
  /\ called = "normalizePhoneNumber"
  /\ DigitsOf(argument.phone) # argument.phone
  /\ Len(DigitsOf(argument.phone)) = 8
  /\ LocalNumbersSpelled(DigitsOf(argument.phone)) = {Tail(DigitsOf(argument.phone))}
  /\ returned.value = <<"9", "6", "0">> \o Tail(DigitsOf(argument.phone))

\* a query that is missing, empty or nothing but white space
IsBlankQuery(query) ==
  \/ query = Undefined
  \/ \A i \in 1..Len(query) : query[i] \in WhiteSpace \cup LineTerminator

\* C33: the worker answers a search message whose query is empty or white
\* space with one result reply that carries the id of the message and an
\* empty result list, whatever its index holds.
C33_BlankQueryEmptyResult ==
  called = "worker" =>
    \A i \in 1..Len(argument.messages) :
      (argument.messages[i].type = "search" /\ IsBlankQuery(argument.messages[i].query)) =>
        returned.handled[i].posted =
          <<[type |-> "result", id |-> argument.messages[i].id, results |-> <<>>]>>

\* a worker that holds an index with a line feed in a text was sent a search
\* for a line feed and a space
C33_Witness ==
  /\ called = "worker"
  /\ Len(argument.messages) = 2
  /\ argument.messages[1].type = "init"
  /\ \E j \in 1..Len(returned.handled[1].index) :
       \E c \in 1..Len(returned.handled[1].index[j].text) :
         returned.handled[1].index[j].text[c] = "\n"
  /\ argument.messages[2].type = "search"
  /\ argument.messages[2].query = <<"\n", " ">>
  /\ returned.handled[2].posted = <<[type |-> "result", id |-> 2, results |-> <<>>]>>

\* the index the worker holds before it handles the i-th message
IndexBefore(i) == IF i = 1 THEN <<>> ELSE returned.handled[i - 1].index

\* no init message is among the messages from the i-th to the j-th
NoInitBetween(i, j) == \A n \in i..j : argument.messages[n].type # "init"

\* C37: handling a search message leaves the worker's index as it was; the
\* index changes only when an init message is handled; and two searches with
\* the same query and no init between them get the same result list.
C37_SearchKeepsCorpus ==
  called = "worker" =>
    /\ \A i \in 1..Len(argument.messages) :
         returned.handled[i].index # IndexBefore(i) => argument.messages[i].type = "init"
    /\ \A i, j \in 1..Len(argument.messages) :
         (/\ i < j
          /\ argument.messages[i].type = "search"
          /\ argument.messages[j].type = "search"
          /\ argument.messages[i].query = argument.messages[j].query
          /\ NoInitBetween(i, j))
         => returned.handled[i].posted[1].results = returned.handled[j].posted[1].results

\* after an init, a query was searched twice and named a contact both times
C37_Witness ==
  /\ called = "worker"
  /\ Len(argument.messages) = 3
  /\ argument.messages[1].type = "init"
  /\ argument.messages[2].type = "search"
  /\ argument.messages[3].type = "search"
  /\ argument.messages[2].query = argument.messages[3].query
  /\ returned.handled[2].posted[1].results # <<>>
  /\ returned.handled[3].posted[1].results = returned.handled[2].posted[1].results
  /\ returned.handled[3].index = returned.handled[1].index

\* C35: after any prefix of the input, and when processMessagesData has
\* returned, the contact registry, the map of message lists and the map of
\* searchable terms have the same keys, and every contact's messageCount is
\* the length of its message list and at least 1.
C35_MapsAgree ==
  /\ DOMAIN contactsMap.at = DOMAIN messagesByContact
  /\ DOMAIN contactsMap.at = DOMAIN searchableData
  /\ {contactsMap.order[i] : i \in 1..Len(contactsMap.order)} = DOMAIN contactsMap.at
  /\ \A k \in DOMAIN contactsMap.at :
       /\ contactsMap.at[k].messageCount = Len(messagesByContact[k])
       /\ contactsMap.at[k].messageCount >= 1

\* in the middle of the export, after a skipped record: one contact, of two
\* messages, with the searchable terms of both records
C35_Witness ==
  /\ pc = "fold"
  /\ Len(data) = 3
  /\ data[1].skip
  /\ \E k \in DOMAIN contactsMap.at :
       /\ DOMAIN contactsMap.at = {k}
       /\ contactsMap.at[k].messageCount = 2
       /\ Len(messagesByContact[k]) = 2
       /\ Len(searchableData[k]) >= 4

(***************************************************************************)
(* Properties of the search, continued (checked under SpecSearch)           *)
(***************************************************************************)
\* the ids of the requests resolved so far
ResolvedIds == {resolved[i].id : i \in 1..Len(resolved)}

\* C34: a request is resolved at most once, and a resolved request is not
\* pending; the resolutions made stay as they are; and the reply of a request
\* that is not pending any more, resolved by its timeout or by a channel
\* error, resolves nothing and leaves the result shown as it is.
C34_ResolvedOnce ==
  [][/\ \A id \in 1..MaxRequests : Cardinality({i \in 1..Len(resolved') : resolved'[i].id = id}) <= 1
     /\ \A i \in 1..Len(resolved') : resolved'[i].id \notin resolversRef'
     /\ Len(resolved') >= Len(resolved)
     /\ SubSeq(resolved', 1, Len(resolved)) = resolved
     /\ (ReplyHandled /\ Head(fromWorker).id \in ResolvedIds) =>
          /\ resolved' = resolved
          /\ resolversRef' = resolversRef
          /\ filteredContactIds' = filteredContactIds
    ]_vars

\* the request of a query that names a contact was resolved with the empty
\* list, by its timeout or by an error, and the worker's reply, which came
\* after that, has been handled
C34_Witness ==
  /\ mounted
  /\ loads = 0
  /\ nextIdRef = 1
  /\ debounce = <<>>
  /\ ~IsBlank(searchQuery)
  /\ CorpusMatches(searchQuery) # {}
  /\ toWorker = <<>>
  /\ fromWorker = <<>>
  /\ resolved = <<[id |-> 1, results |-> <<>>]>>
  /\ filteredContactIds = <<>>

\* C36: the isSearching flag is TRUE exactly when a request is pending: it is
\* set when a request is issued and cleared by the reply, the timeout or the
\* channel error that removes the last pending request.
C36_FlagIffPending ==
  /\ isSearching <=> (resolversRef # {})
  /\ resolversRef \subseteq 1..nextIdRef

\* two requests were issued and the reply of the first was handled: the second
\* is pending and the flag is still set
C36_Witness ==
  /\ mounted
  /\ nextIdRef = 2
  /\ resolversRef = {2}
  /\ isSearching
  /\ Len(resolved) = 1
  /\ resolved[1].id = 1
  /\ resolved[1].results # <<>>

====
